---- MODULE Spec2Model ----
(***************************************************************************)
(* A model of projectdiscovery/gologger: the event construction and        *)
(* dispatch pipeline of gologger.go (Logger, Event, the slog.Handler       *)
(* adapter), the console writer and the rotating file writer.              *)
(*                                                                         *)
(* Strings are TLC strings (concatenated with \o); a message is a sequence *)
(* of tokens so that the trailing-newline trimming of Logger.Log and the   *)
(* verb substitution of fmt.Sprintf are computed, not assumed.             *)
(***************************************************************************)
EXTENDS Integers, Sequences, FiniteSets, TLC

VARIABLES
    loggers,    \* the Logger instances on the heap; the index is the pointer
    hist,       \* ghost: per logger, how it was derived
    last,       \* the last API call: its inputs, what it did and put out
    exitCode    \* -1 while the process runs, else the os.Exit status

\* the rotating file writer of writer/filewithrotation.go and its callers
VARIABLES
    fwr,        \* the FileWithRotation: its options and its logFile handle
    mutex,      \* the holder of fwr.mutex, or Unlocked
    fds,        \* the *os.File values opened so far
    disk,       \* the file system: names -> files, and the files' content
    today,      \* the day time.Now() falls on
    pc,         \* where each goroutine stands
    sent,       \* lines each writer goroutine has finished writing
    tasks,      \* the compression goroutines started by compressLogs
    wlog        \* ghost: every use of fwr.logFile by a Write call

pipeVars == <<loggers, hist, last, exitCode>>
rotVars == <<fwr, mutex, fds, disk, today, pc, sent, tasks, wlog>>
vars == <<loggers, hist, last, exitCode,
          fwr, mutex, fds, disk, today, pc, sent, tasks, wlog>>

(***************************************************************************)
(* Bounds of the model.                                                    *)
(***************************************************************************)
MaxLoggers == 3     \* Logger instances (the root and its derivations)
MaxAttrs == 2       \* bound attributes per logger
NumWriters == 2     \* goroutines that log through one writer
LinesPerWriter == 1 \* lines each of them emits
MaxDay == 2         \* days the clock runs through
MaxTick == 4        \* ticks of the scheduler the clock runs through
MaxSlogLevel == 16  \* slog levels range over -MaxSlogLevel..MaxSlogLevel

(***************************************************************************)
(* levels.Level: an integer-ordered enum, lower is more severe.            *)
(***************************************************************************)
LevelFatal == 0
LevelError == 1
LevelWarning == 2
LevelSilent == 3
LevelInfo == 4
LevelDebug == 5
LevelVerbose == 6

Levels == {LevelFatal, LevelError, LevelWarning, LevelSilent, LevelInfo,
           LevelDebug, LevelVerbose}

\* gologger.go: var labels
HasLabel(level) == level \in {LevelFatal, LevelError, LevelInfo, LevelWarning,
                              LevelDebug, LevelVerbose}

labels(level) ==
    CASE level = LevelFatal -> "FTL"
      [] level = LevelError -> "ERR"
      [] level = LevelInfo -> "INF"
      [] level = LevelWarning -> "WRN"
      [] level = LevelDebug -> "DBG"
      [] level = LevelVerbose -> "VER"
      [] OTHER -> ""          \* a Go map read of a missing key yields ""

(***************************************************************************)
(* Custom slog levels and the slog -> gologger level translation.          *)
(***************************************************************************)
LevelTrace == -8
SlogLevelVerbose == -6
SlogLevelDebug == -4
SlogLevelInfo == 0
SlogLevelSilent == 1
SlogLevelWarn == 4
SlogLevelError == 8
SlogLevelFatal == 12

\* mutant: the case of LevelSilent is missing
slogLevelToGologgerLevelNoSilent(level) ==
    CASE level >= SlogLevelFatal -> LevelFatal
      [] level < SlogLevelFatal /\ level >= SlogLevelError -> LevelError
      [] level < SlogLevelError /\ level >= SlogLevelWarn -> LevelWarning
      [] level < SlogLevelWarn /\ level >= SlogLevelInfo -> LevelInfo
      [] level < SlogLevelInfo /\ level >= SlogLevelDebug -> LevelDebug
      [] OTHER -> LevelVerbose

slogLevelToGologgerLevel(level) ==
    CASE level >= SlogLevelFatal -> LevelFatal
      [] level < SlogLevelFatal /\ level >= SlogLevelError -> LevelError
      [] level < SlogLevelError /\ level >= SlogLevelWarn -> LevelWarning
      [] level < SlogLevelWarn /\ level >= SlogLevelSilent -> LevelSilent
      [] level < SlogLevelSilent /\ level >= SlogLevelInfo -> LevelInfo
      [] level < SlogLevelInfo /\ level >= SlogLevelDebug -> LevelDebug
      [] level < SlogLevelDebug /\ level >= SlogLevelVerbose -> LevelVerbose
      [] level < SlogLevelVerbose /\ level >= LevelTrace -> LevelVerbose
      [] OTHER -> LevelVerbose

(***************************************************************************)
(* Metadata maps (map[string]string) and messages.                         *)
(***************************************************************************)
EmptyMap == [k \in {} |-> ""]

\* m[key] = value on a Go map: last write wins
MapSet(m, key, value) ==
    [k \in DOMAIN m \cup {key} |-> IF k = key THEN value ELSE m[k]]

\* strings.TrimSuffix(message, "\n"): removes one trailing newline
TrimSuffixNL(message) ==
    IF Len(message) > 0 /\ message[Len(message)] = "\n"
    THEN SubSeq(message, 1, Len(message) - 1)
    ELSE message

\* fmt.Sprintf(format, args...) for the %s verb: each verb is replaced by
\* the next argument, a verb without argument renders %!s(MISSING)
RECURSIVE Sprintf(_, _)
Sprintf(format, args) ==
    IF format = <<>> THEN
        IF args = <<>> THEN <<>> ELSE <<"%!(EXTRA)">>
    ELSE IF Head(format) = "%s" THEN
        IF args = <<>>
        THEN <<"%!s(MISSING)">> \o Sprintf(Tail(format), args)
        ELSE <<Head(args)>> \o Sprintf(Tail(format), Tail(args))
    ELSE <<Head(format)>> \o Sprintf(Tail(format), args)

\* time.Now().Format(time.RFC3339): the wall clock is opaque to the model
NowRFC3339 == "<now>"

(***************************************************************************)
(* slog attribute values and formatAttrValue.                              *)
(***************************************************************************)
RECURSIVE Digits(_)
Digits(n) ==
    IF n < 10 THEN <<n>> ELSE Digits(n \div 10) \o <<n % 10>>

DigitChar(d) ==
    CASE d = 0 -> "0" [] d = 1 -> "1" [] d = 2 -> "2" [] d = 3 -> "3"
      [] d = 4 -> "4" [] d = 5 -> "5" [] d = 6 -> "6" [] d = 7 -> "7"
      [] d = 8 -> "8" [] d = 9 -> "9"

RECURSIVE JoinDigits(_)
JoinDigits(ds) ==
    IF ds = <<>> THEN "" ELSE DigitChar(Head(ds)) \o JoinDigits(Tail(ds))

\* fmt.Sprintf("%d", n)
FormatInt(n) == IF n < 0 THEN "-" \o JoinDigits(Digits(0 - n))
                ELSE JoinDigits(Digits(n))

StringValue(s) == [kind |-> "String", s |-> s, n |-> 0, b |-> FALSE]
Int64Value(n) == [kind |-> "Int64", s |-> "", n |-> n, b |-> FALSE]
BoolValue(b) == [kind |-> "Bool", s |-> "", n |-> 0, b |-> b]
AnyNilValue == [kind |-> "Any", s |-> "", n |-> 0, b |-> FALSE]

\* a slog.Value of KindAny whose formatting panics with the given reason
AnyPanicValue(reason) == [kind |-> "Any", s |-> reason, n |-> 0, b |-> TRUE]

Uint64Value(n) == [kind |-> "Uint64", s |-> "", n |-> n, b |-> FALSE]

\* a float64: its class is "nan", "+inf", "-inf" or "num", and a number is
\* held in hundredths
Float64Value(class, hundredths) ==
    [kind |-> "Float64", s |-> class, n |-> hundredths, b |-> FALSE]

\* a time.Duration, in nanoseconds
DurationValue(ns) == [kind |-> "Duration", s |-> "", n |-> ns, b |-> FALSE]

\* a time.Time: the zero time, or the time of the clock
TimeValue(isZero) == [kind |-> "Time", s |-> "", n |-> 0, b |-> isZero]

\* a group, v.String() of which is s
GroupValue(s) == [kind |-> "Group", s |-> s, n |-> 0, b |-> FALSE]

Panics(v) == v.kind = "Any" /\ v.b

\* n in exactly width decimal digits
RECURSIVE PadDigits(_, _)
PadDigits(n, width) ==
    IF width = 0 THEN ""
    ELSE PadDigits(n \div 10, width - 1) \o DigitChar(n % 10)

\* fmtFrac: the fraction rem / 10^prec, trailing zeros and then the point
\* omitted
RECURSIVE FmtFrac(_, _)
FmtFrac(rem, prec) ==
    IF rem = 0 THEN ""
    ELSE IF rem % 10 = 0 THEN FmtFrac(rem \div 10, prec - 1)
    ELSE "." \o PadDigits(rem, prec)

\* fmt.Sprintf("%g", f) of a number held in hundredths
FormatG(hundredths) ==
    LET u == IF hundredths < 0 THEN 0 - hundredths ELSE hundredths
    IN (IF hundredths < 0 THEN "-" ELSE "")
           \o FormatInt(u \div 100) \o FmtFrac(u % 100, 2)

\* mutant: a duration is rendered as its count of nanoseconds
FormatDurationNanos(d) == FormatInt(d) \o "ns"

\* time.Duration.String
FormatDuration(d) ==
    LET u == IF d < 0 THEN 0 - d ELSE d
        sign == IF d < 0 THEN "-" ELSE ""
        secs == u \div 1000000000
        h == secs \div 3600
        m == (secs \div 60) % 60
    IN IF u = 0 THEN "0s"
       ELSE IF u < 1000 THEN sign \o FormatInt(u) \o "ns"
       ELSE IF u < 1000000
       THEN sign \o FormatInt(u \div 1000) \o FmtFrac(u % 1000, 3) \o "µs"
       ELSE IF u < 1000000000
       THEN sign \o FormatInt(u \div 1000000) \o FmtFrac(u % 1000000, 6)
                \o "ms"
       ELSE sign \o (IF h > 0 THEN FormatInt(h) \o "h" ELSE "")
                \o (IF h > 0 \/ m > 0 THEN FormatInt(m) \o "m" ELSE "")
                \o FormatInt(secs % 60) \o FmtFrac(u % 1000000000, 9) \o "s"

\* mutant: the recovered panic leaves the result empty
formatAttrValueDropsReason(v) ==
    IF Panics(v) THEN ""
    ELSE CASE v.kind = "String" -> v.s
           [] v.kind = "Int64" -> FormatInt(v.n)
           [] v.kind = "Bool" -> IF v.b THEN "true" ELSE "false"
           [] v.kind = "Any" -> "<nil>"
           [] OTHER -> v.s

\* formatAttrValue: the switch on the kind, and the deferred recover that
\* turns a panic into the result "<error formatting value: REASON>"
formatAttrValue(v) ==
    IF Panics(v) THEN "<error formatting value: " \o v.s \o ">"
    ELSE CASE v.kind = "String" -> v.s
           [] v.kind = "Int64" -> FormatInt(v.n)
           [] v.kind = "Uint64" -> FormatInt(v.n)
           [] v.kind = "Float64" ->
                  IF v.s = "nan" THEN "NaN"
                  ELSE IF v.s = "+inf" THEN "+Inf"
                  ELSE IF v.s = "-inf" THEN "-Inf"
                  ELSE FormatG(v.n)
           [] v.kind = "Bool" -> IF v.b THEN "true" ELSE "false"
           [] v.kind = "Duration" -> FormatDuration(v.n)
           [] v.kind = "Time" ->
                  IF v.b THEN "0001-01-01T00:00:00Z" ELSE NowRFC3339
           [] v.kind = "Any" -> "<nil>"
           [] v.kind = "Group" -> "[group:" \o v.s \o "]"
           [] OTHER -> v.s

Attr(key, value) == [Key |-> key, Value |-> value]

(***************************************************************************)
(* Logger and Event.                                                       *)
(***************************************************************************)
\* &Logger{} followed by the configuration of init()
NewLogger(maxLevel) ==
    [writer |-> "cli", maxLevel |-> maxLevel, formatter |-> "cli",
     timestampMinLevel |-> LevelFatal, timestamp |-> FALSE,
     groupPrefix |-> "", persistedAttrs |-> <<>>]

NoEvent == [logger |-> 0, level |-> -1, message |-> <<>>, metadata |-> EmptyMap]

\* mutant: every constructor sets the label of its level
CtorLabelledAlways(ctor) == ctor \in STRING

\* mutant: the comparison is turned around
isCurrentLevelEnabledInverted(e) == e.level >= loggers[e.logger].maxLevel

\* mutant: the threshold itself is not admitted
isCurrentLevelEnabledStrict(e) == e.level < loggers[e.logger].maxLevel

isCurrentLevelEnabled(e) == e.level <= loggers[e.logger].maxLevel

\* Event.TimeStamp
TimeStamp(e) == [e EXCEPT !.metadata = MapSet(@, "timestamp", NowRFC3339)]

\* Event.setLevelMetadata
setLevelMetadata(e, level) ==
    [e EXCEPT !.metadata = MapSet(@, "label", labels(level))]

\* Event.Str
Str(e, key, value) == [e EXCEPT !.metadata = MapSet(@, key, value)]

\* mutant: an event at the minimum level itself is not stamped
newEventWithLevelAndLoggerStrict(level, l) ==
    LET event == [logger |-> l, level |-> level, message |-> <<>>,
                  metadata |-> EmptyMap]
    IN IF loggers[l].timestamp /\ level > loggers[l].timestampMinLevel
       THEN TimeStamp(event)
       ELSE event

newEventWithLevelAndLogger(level, l) ==
    LET event == [logger |-> l, level |-> level, message |-> <<>>,
                  metadata |-> EmptyMap]
    IN IF loggers[l].timestamp /\ level >= loggers[l].timestampMinLevel
       THEN TimeStamp(event)
       ELSE event

\* The level constructors: Logger.Info ... Logger.Verbose, and the
\* package-level Silent and Print, which build on DefaultLogger
CtorLevel(ctor) ==
    CASE ctor = "Info" -> LevelInfo
      [] ctor = "Warning" -> LevelWarning
      [] ctor = "Error" -> LevelError
      [] ctor = "Debug" -> LevelDebug
      [] ctor = "Fatal" -> LevelFatal
      [] ctor = "Print" -> LevelSilent
      [] ctor = "Verbose" -> LevelVerbose
      [] ctor = "Silent" -> LevelSilent
      [] ctor = "PkgPrint" -> LevelInfo

CtorLabelled(ctor) == ctor \notin {"Print", "Silent", "PkgPrint"}

NewEvent(ctor, l) ==
    LET event == newEventWithLevelAndLogger(CtorLevel(ctor), l)
    IN IF CtorLabelled(ctor) THEN setLevelMetadata(event, CtorLevel(ctor))
       ELSE event

RECURSIVE StrAll(_, _)
StrAll(e, pairs) ==
    IF pairs = <<>> THEN e
    ELSE StrAll(Str(e, Head(pairs)[1], Head(pairs)[2]), Tail(pairs))

(***************************************************************************)
(* Formatter and writer, as Logger.Log uses them.                          *)
(***************************************************************************)
NoPayload == [kind |-> "none", label |-> "", message |-> <<>>, pairs |-> {},
              newline |-> FALSE]

\* formatter.CLI.Format: the bracketed label when the label key is set and not
\* empty, the message, one key=value pair per metadata entry (in map
\* iteration order, hence a set), and a newline
FormatCLI(message, level, metadata) ==
    [kind |-> "cli",
     label |-> IF "label" \in DOMAIN metadata /\ metadata["label"] # ""
               THEN "[" \o metadata["label"] \o "] " ELSE "",
     message |-> message,
     pairs |-> {<<k, metadata[k]>> : k \in DOMAIN metadata},
     newline |-> TRUE]

\* a formatter plugged through the Formatter interface: opaque bytes
FormatCustom(message, level, metadata) ==
    [kind |-> "custom", label |-> "", message |-> message, pairs |-> {},
     newline |-> FALSE]

\* time.Now().UTC().Format("2006-01-02T15:04:05-0700")
NowUTC == "<now utc>"

\* a text with ANSI colour sequences around x, and
\* filter.ReplaceAllString(msg, ""), which removes them
ColouredX == "^[[31mx^[[0m"
StripANSI(msg) == IF msg = ColouredX THEN "x" ELSE msg

\* formatter.JSON.Format on the event as a map: the sentinel (nil, nil)
\* when the key msg is missing, else the map with the timestamp stamped and
\* the message filtered, marshalled
FormatJSON(event) ==
    IF "msg" \notin DOMAIN event
    THEN [err |-> FALSE, data |-> NoPayload]
    ELSE LET stamped == MapSet(MapSet(event, "timestamp", NowUTC),
                               "msg", StripANSI(event["msg"]))
         IN [err |-> FALSE,
             data |-> [kind |-> "json", label |-> "",
                       message |-> <<stamped["msg"]>>,
                       pairs |-> {<<k, stamped[k]>> : k \in DOMAIN stamped},
                       newline |-> FALSE]]

\* mutant: the error of a failing formatter is dropped with its data kept
FormatSwallowsError(formatter, message, level, metadata, ferr) ==
    IF formatter = "cli"
    THEN [err |-> FALSE, data |-> FormatCLI(message, level, metadata)]
    ELSE [err |-> FALSE, data |-> FormatCustom(message, level, metadata)]

\* l.formatter.Format(...): ferr is whether a plugged formatter fails; the
\* console formatter never returns an error; formatter.JSON takes a
\* formatter.LogEvent that is a map[string]string, which of an Event is its
\* metadata
Format(formatter, message, level, metadata, ferr) ==
    IF formatter = "cli"
    THEN [err |-> FALSE, data |-> FormatCLI(message, level, metadata)]
    ELSE IF formatter = "json" THEN FormatJSON(metadata)
    ELSE IF ferr THEN [err |-> TRUE, data |-> NoPayload]
    ELSE [err |-> FALSE, data |-> FormatCustom(message, level, metadata)]

NoWrite == [writer |-> "", data |-> NoPayload, level |-> -1]

\* writer.NewLine, as init() sets it where osutil.IsWindows() is false
NewLine == "\n"

\* what a Write call puts on a stream: the data, then the line terminator
DataChunk(data) == [what |-> "data", data |-> data, text |-> ""]
NewLineChunk == [what |-> "newline", data |-> NoPayload, text |-> NewLine]

NoOutput == [stdout |-> <<>>, stderr |-> <<>>]

\* writer.CLI.Write; the source holds two definitions of it: "cli" is the
\* first (both writes on one stream), "cli2" the second (the line terminator
\* of every level on os.Stdout)
CLIWrite(writer, data, level) ==
    IF level = LevelSilent
    THEN [stdout |-> <<DataChunk(data), NewLineChunk>>, stderr |-> <<>>]
    ELSE IF writer = "cli"
    THEN [stdout |-> <<>>, stderr |-> <<DataChunk(data), NewLineChunk>>]
    ELSE [stdout |-> <<NewLineChunk>>, stderr |-> <<DataChunk(data)>>]

\* l.writer.Write(data, level): a writer plugged through the Writer
\* interface puts nothing on the console
Write(writer, data, level) ==
    IF writer \in {"cli", "cli2"} THEN CLIWrite(writer, data, level)
    ELSE NoOutput

\* mutant: the Fatal test precedes the write, so a Fatal event exits unwritten
LogExitsBeforeWrite(l, event, ferr) ==
    IF ~isCurrentLevelEnabled(event)
    THEN [effects |-> <<>>, event |-> event, written |-> NoWrite,
          out |-> NoOutput, exit |-> FALSE]
    ELSE
      LET trimmed == [event EXCEPT !.message = TrimSuffixNL(@)]
          res == Format(loggers[l].formatter, trimmed.message, trimmed.level,
                        trimmed.metadata, ferr)
      IN IF res.err
         THEN [effects |-> <<"format">>, event |-> trimmed,
               written |-> NoWrite, out |-> NoOutput, exit |-> FALSE]
         ELSE IF trimmed.level = LevelFatal
         THEN [effects |-> <<"format", "exit">>, event |-> trimmed,
               written |-> NoWrite, out |-> NoOutput, exit |-> TRUE]
         ELSE [effects |-> <<"format", "write">>, event |-> trimmed,
               written |-> [writer |-> loggers[l].writer, data |-> res.data,
                            level |-> trimmed.level],
               out |-> Write(loggers[l].writer, res.data, trimmed.level),
               exit |-> FALSE]

\* Logger.Log: what one call does, as the sequence of its effects, the event as
\* it leaves the call, and what was handed to the writer
Log(l, event, ferr) ==
    IF ~isCurrentLevelEnabled(event)
    THEN [effects |-> <<>>, event |-> event, written |-> NoWrite,
          out |-> NoOutput, exit |-> FALSE]
    ELSE
      LET trimmed == [event EXCEPT !.message = TrimSuffixNL(@)]
          res == Format(loggers[l].formatter, trimmed.message, trimmed.level,
                        trimmed.metadata, ferr)
      IN IF res.err
         THEN [effects |-> <<"format">>, event |-> trimmed,
               written |-> NoWrite, out |-> NoOutput, exit |-> FALSE]
         ELSE [effects |-> <<"format", "write">> \o
                           (IF trimmed.level = LevelFatal THEN <<"exit">>
                            ELSE <<>>),
               event |-> trimmed,
               written |-> [writer |-> loggers[l].writer, data |-> res.data,
                            level |-> trimmed.level],
               out |-> Write(loggers[l].writer, res.data, trimmed.level),
               exit |-> trimmed.level = LevelFatal]

(***************************************************************************)
(* The record of the last call.                                            *)
(***************************************************************************)
NoRecord == [Level |-> 0, Message |-> <<>>, Attrs |-> <<>>]

\* ferr: the formatter of l, if this call invokes it, returns an error
Call(op, l, ferr) ==
    [op |-> op, logger |-> l, result |-> 0,
     maxLevel |-> loggers[l].maxLevel, ctx |-> "none",
     ferr |-> ferr /\ loggers[l].formatter \notin {"cli", "json"},
     record |-> NoRecord, arg |-> <<>>, pairs |-> <<>>,
     effects |-> <<>>, event |-> NoEvent, written |-> NoWrite,
     out |-> NoOutput, ret |-> "none"]

Logged(call, res) ==
    [call EXCEPT !.effects = @ \o res.effects, !.event = res.event,
                 !.written = res.written, !.out = res.out]

Running == exitCode = -1

Finish(call, res) ==
    /\ last' = Logged(call, res)
    /\ exitCode' = IF res.exit THEN 1 ELSE exitCode

(***************************************************************************)
(* Configuration calls.                                                    *)
(***************************************************************************)
SetMaxLevel(l, level) ==
    /\ Running
    /\ loggers' = [loggers EXCEPT ![l].maxLevel = level]
    /\ last' = [Call("SetMaxLevel", l, FALSE) EXCEPT !.arg = <<level>>]
    /\ UNCHANGED <<hist, exitCode, rotVars>>

SetFormatter(l, formatter) ==
    /\ Running
    /\ loggers' = [loggers EXCEPT ![l].formatter = formatter]
    /\ last' = [Call("SetFormatter", l, FALSE) EXCEPT !.arg = <<formatter>>]
    /\ UNCHANGED <<hist, exitCode, rotVars>>

SetWriter(l, writer) ==
    /\ Running
    /\ loggers' = [loggers EXCEPT ![l].writer = writer]
    /\ last' = [Call("SetWriter", l, FALSE) EXCEPT !.arg = <<writer>>]
    /\ UNCHANGED <<hist, exitCode, rotVars>>

SetTimestamp(l, timestamp, minLevel) ==
    /\ Running
    /\ loggers' = [loggers EXCEPT ![l].timestamp = timestamp,
                                  ![l].timestampMinLevel = minLevel]
    /\ last' = [Call("SetTimestamp", l, FALSE) EXCEPT !.arg = <<timestamp, minLevel>>]
    /\ UNCHANGED <<hist, exitCode, rotVars>>

(***************************************************************************)
(* The fluent API: a level constructor, Str calls, and a terminal call.    *)
(***************************************************************************)
\* l.Ctor().Str(k, v)....Msg(message)
Msg(l, ctor, pairs, message, ferr) ==
    /\ Running
    /\ LET e == [StrAll(NewEvent(ctor, l), pairs) EXCEPT !.message = message]
           call == [Call("Msg", l, ferr) EXCEPT !.arg = <<ctor>>,
                                                !.pairs = pairs]
       IN Finish(call, Log(l, e, ferr))
    /\ UNCHANGED <<loggers, hist, rotVars>>

\* l.Ctor().Msgf(format, args...)
Msgf(l, ctor, format, args, ferr) ==
    /\ Running
    /\ LET e == [NewEvent(ctor, l) EXCEPT !.message = Sprintf(format, args)]
           call == [Call("Msgf", l, ferr) EXCEPT !.arg = <<ctor>>]
       IN Finish(call, Log(l, e, ferr))
    /\ UNCHANGED <<loggers, hist, rotVars>>

\* mutant: the supplier is called before the level is tested
MsgFuncEager(l, ctor, supplied, ferr) ==
    /\ Running
    /\ LET e == [NewEvent(ctor, l) EXCEPT !.message = supplied]
           call == [Call("MsgFunc", l, ferr) EXCEPT !.arg = <<ctor>>,
                                                    !.effects = <<"supplier">>]
       IN Finish(call, Log(l, e, ferr))
    /\ UNCHANGED <<loggers, hist, rotVars>>

\* l.Ctor().MsgFunc(messageSupplier); supplied is what the supplier returns
MsgFunc(l, ctor, supplied, ferr) ==
    /\ Running
    /\ LET e0 == NewEvent(ctor, l)
           call == [Call("MsgFunc", l, ferr) EXCEPT !.arg = <<ctor>>]
       IN IF ~isCurrentLevelEnabled(e0)
          THEN /\ last' = [call EXCEPT !.event = e0]
               /\ UNCHANGED exitCode
          ELSE LET e == [e0 EXCEPT !.message = supplied]
               IN Finish([call EXCEPT !.effects = <<"supplier">>],
                         Log(l, e, ferr))
    /\ UNCHANGED <<loggers, hist, rotVars>>

(***************************************************************************)
(* The slog.Handler adapter.                                               *)
(***************************************************************************)
\* the two loops of Handle: metadata[groupPrefix + attr.Key] = formatted value
RECURSIVE AddAttrs(_, _, _)
AddAttrs(metadata, groupPrefix, attrs) ==
    IF attrs = <<>> THEN metadata
    ELSE AddAttrs(MapSet(metadata, groupPrefix \o Head(attrs).Key,
                         formatAttrValue(Head(attrs).Value)),
                  groupPrefix, Tail(attrs))

\* mutant: the timestamp policy of the logger is not applied
HandleEventUnstamped(l, record) ==
    LET gologgerLevel == slogLevelToGologgerLevel(record.Level)
        e0 == [logger |-> l, level |-> gologgerLevel,
               message |-> record.Message, metadata |-> EmptyMap]
        e2 == IF gologgerLevel # LevelSilent /\ HasLabel(gologgerLevel)
              THEN [e0 EXCEPT !.metadata = MapSet(@, "label",
                                                  labels(gologgerLevel))]
              ELSE e0
        m3 == AddAttrs(e2.metadata, loggers[l].groupPrefix,
                       loggers[l].persistedAttrs)
        m4 == AddAttrs(m3, loggers[l].groupPrefix, record.Attrs)
    IN [e2 EXCEPT !.metadata = m4]

\* the event Handle builds before it calls Log
HandleEvent(l, record) ==
    LET gologgerLevel == slogLevelToGologgerLevel(record.Level)
        e0 == [logger |-> l, level |-> gologgerLevel,
               message |-> record.Message, metadata |-> EmptyMap]
        e1 == IF loggers[l].timestamp
                 /\ gologgerLevel >= loggers[l].timestampMinLevel
              THEN TimeStamp(e0) ELSE e0
        \* customLevelLabels is empty, so only the standard labels apply
        e2 == IF gologgerLevel # LevelSilent /\ HasLabel(gologgerLevel)
              THEN [e1 EXCEPT !.metadata = MapSet(@, "label",
                                                  labels(gologgerLevel))]
              ELSE e1
        m3 == AddAttrs(e2.metadata, loggers[l].groupPrefix,
                       loggers[l].persistedAttrs)
        m4 == AddAttrs(m3, loggers[l].groupPrefix, record.Attrs)
    IN [e2 EXCEPT !.metadata = m4]

\* mutant: the context is not consulted
HandleIgnoresContext(l, ctx, record, ferr) ==
    /\ Running
    /\ LET call == [Call("Handle", l, ferr) EXCEPT !.ctx = ctx,
                                                   !.record = record]
           res == Log(l, HandleEvent(l, record), ferr)
       IN Finish([call EXCEPT !.ret = IF res.exit THEN "none" ELSE "nil"], res)
    /\ UNCHANGED <<loggers, hist, rotVars>>

\* mutant: only the max level itself is enabled
EnabledExact(l, level) == slogLevelToGologgerLevel(level) = loggers[l].maxLevel

\* mutant: the slog level is compared without being translated
EnabledUntranslated(l, level) == level <= loggers[l].maxLevel

\* Logger.Enabled: the context is not looked at
Enabled(l, level) == slogLevelToGologgerLevel(level) <= loggers[l].maxLevel

\* ctx is "active", or the error of a context that is done
Handle(l, ctx, record, ferr) ==
    /\ Running
    /\ LET call == [Call("Handle", l, ferr) EXCEPT !.ctx = ctx,
                                                   !.record = record]
       IN IF ctx # "active"
          THEN /\ last' = [call EXCEPT !.ret = ctx]
               /\ UNCHANGED exitCode
          ELSE LET res == Log(l, HandleEvent(l, record), ferr)
               IN Finish([call EXCEPT !.ret = IF res.exit THEN "none"
                                              ELSE "nil"], res)
    /\ UNCHANGED <<loggers, hist, rotVars>>

\* mutant: the new attributes replace the inherited ones
WithAttrsDropsInherited(l, attrs) ==
    /\ Running
    /\ Len(loggers) < MaxLoggers
    /\ Len(loggers[l].persistedAttrs) + Len(attrs) <= MaxAttrs
    /\ loggers' = Append(loggers, [loggers[l] EXCEPT !.persistedAttrs = attrs])
    /\ hist' = Append(hist,
           [parent |-> l, groups |-> hist[l].groups,
            lists |-> Append(hist[l].lists, attrs),
            bound |-> hist[l].bound \o
                [i \in 1..Len(attrs) |-> loggers[l].groupPrefix]])
    /\ last' = [Call("WithAttrs", l, FALSE) EXCEPT !.arg = attrs,
                                                   !.result = Len(loggers) + 1]
    /\ UNCHANGED <<exitCode, rotVars>>

\* ghost: the derivation history of the root logger
RootHist == [parent |-> 0, groups |-> <<>>, lists |-> <<>>, bound |-> <<>>]

WithAttrs(l, attrs) ==
    /\ Running
    /\ Len(loggers) < MaxLoggers
    /\ Len(loggers[l].persistedAttrs) + Len(attrs) <= MaxAttrs
    /\ LET persistedAttrs == loggers[l].persistedAttrs \o attrs
           new == [writer |-> loggers[l].writer,
                   maxLevel |-> loggers[l].maxLevel,
                   formatter |-> loggers[l].formatter,
                   timestampMinLevel |-> loggers[l].timestampMinLevel,
                   timestamp |-> loggers[l].timestamp,
                   groupPrefix |-> loggers[l].groupPrefix,
                   persistedAttrs |-> persistedAttrs]
       IN /\ loggers' = Append(loggers, new)
          /\ hist' = Append(hist,
                 [parent |-> l, groups |-> hist[l].groups,
                  lists |-> Append(hist[l].lists, attrs),
                  bound |-> hist[l].bound \o
                      [i \in 1..Len(attrs) |-> loggers[l].groupPrefix]])
          /\ last' = [Call("WithAttrs", l, FALSE) EXCEPT !.arg = attrs,
                                                  !.result = Len(loggers) + 1]
    /\ UNCHANGED <<exitCode, rotVars>>

\* mutant: the new group replaces the groups already open
NewPrefixDropsParent(groupPrefix, name) ==
    IF name = "" THEN "." ELSE name \o "."

\* the newPrefix of WithGroup
NewPrefix(groupPrefix, name) ==
    IF name = ""
    THEN IF groupPrefix = "" THEN "."
         ELSE groupPrefix \o "."
    ELSE IF groupPrefix = "" THEN name \o "."
         ELSE groupPrefix \o name \o "."

\* mutant: the receiver is updated in place before it is copied
WithGroupInPlace(l, name) ==
    /\ Running
    /\ Len(loggers) < MaxLoggers
    /\ LET newPrefix == NewPrefix(loggers[l].groupPrefix, name)
           new == [loggers[l] EXCEPT !.groupPrefix = newPrefix]
       IN /\ loggers' = Append([loggers EXCEPT ![l] = new], new)
          /\ hist' = Append(hist,
                 [parent |-> l, groups |-> Append(hist[l].groups, name),
                  lists |-> hist[l].lists, bound |-> hist[l].bound])
          /\ last' = [Call("WithGroup", l, FALSE) EXCEPT
                          !.arg = <<name>>, !.result = Len(loggers) + 1]
    /\ UNCHANGED <<exitCode, rotVars>>

WithGroup(l, name) ==
    /\ Running
    /\ Len(loggers) < MaxLoggers
    /\ LET newPrefix == NewPrefix(loggers[l].groupPrefix, name)
           new == [writer |-> loggers[l].writer,
                   maxLevel |-> loggers[l].maxLevel,
                   formatter |-> loggers[l].formatter,
                   timestampMinLevel |-> loggers[l].timestampMinLevel,
                   timestamp |-> loggers[l].timestamp,
                   groupPrefix |-> newPrefix,
                   persistedAttrs |-> loggers[l].persistedAttrs]
       IN /\ loggers' = Append(loggers, new)
          /\ hist' = Append(hist,
                 [parent |-> l, groups |-> Append(hist[l].groups, name),
                  lists |-> hist[l].lists, bound |-> hist[l].bound])
          /\ last' = [Call("WithGroup", l, FALSE) EXCEPT !.arg = <<name>>,
                                                  !.result = Len(loggers) + 1]
    /\ UNCHANGED <<exitCode, rotVars>>

(***************************************************************************)
(* The rotating file writer (writer/filewithrotation.go).                  *)
(*                                                                         *)
(* A file name is a sequence of tokens, so that the trimming and parsing   *)
(* of checkAndRotate are computed.  A file is an inode holding the chunks  *)
(* written to it; a line is a payload chunk followed by the chunk "\n".    *)
(***************************************************************************)
Checker == 0
Unlocked == -1
Writers == 1..NumWriters

\* time.Time.Format(backupTimeFormat), backupTimeFormat = "2006-01-02"
FormatDay(day) == "2006-01-" \o (IF day < 10 THEN "0" ELSE "") \o FormatInt(day)

\* time.Parse(backupTimeFormat, ts): the day, or 0 on a parse error
ParseDay(ts) ==
    IF Len(ts) = 1 /\ \E d \in 1..(MaxDay + 1) : FormatDay(d) = ts[1]
    THEN CHOOSE d \in 1..(MaxDay + 1) : FormatDay(d) = ts[1]
    ELSE 0

\* strings.TrimPrefix and strings.TrimSuffix on a tokenised name
TrimPrefix(name, prefix) ==
    IF name # <<>> /\ Head(name) = prefix THEN Tail(name) ELSE name

TrimSuffix(name, suffix) ==
    IF name # <<>> /\ name[Len(name)] = suffix
    THEN SubSeq(name, 1, Len(name) - 1) ELSE name

\* path.Join(Location, base): "." is cleaned away, a directory is kept
PathJoin(location, base) ==
    IF location = "." THEN base ELSE <<location \o "/">> \o base

\* the full path buildRotateName stores in options.FileName
RotateName(location, day) ==
    PathJoin(location, <<"proc-", FormatDay(day), ".log">>)

dateEqual(day1, day2) == day1 = day2

\* the files of the disk: a name is bound to an inode
NoFile == 0
Lookup(name) == IF name \in DOMAIN disk.names THEN disk.names[name] ELSE NoFile

\* what Write hands to the file: the payload of line j of writer w, then "\n"
Payload(w, j) == <<w, j>>
Newline == <<0, 0>>

\* (*os.File).Write: fails on a nil, closed or read-only handle
CanWrite(h) == h # 0 /\ ~fds[h].closed /\ fds[h].writable

FileWrite(h, chunk) ==
    IF CanWrite(h)
    THEN [disk EXCEPT !.inodes[fds[h].inode] = Append(@, chunk)]
    ELSE disk

Observe(w, h) ==
    [writer |-> w, handle |-> h, usable |-> CanWrite(h),
     closed |-> h # 0 /\ fds[h].closed, checkerAt |-> pc[Checker]]

(***************************************************************************)
(* FileWithRotation.Write, one call per line, by goroutine w.              *)
(***************************************************************************)
\* w.mutex.Lock()
WriteLock(w) ==
    /\ pc[w] = "idle" /\ sent[w] < LinesPerWriter
    /\ mutex = Unlocked
    /\ mutex' = w
    /\ pc' = [pc EXCEPT ![w] = "data"]
    /\ UNCHANGED <<fwr, fds, disk, today, sent, tasks, wlog, pipeVars>>

\* w.logFile.Write(data)
WriteData(w) ==
    /\ pc[w] = "data"
    /\ disk' = FileWrite(fwr.logFile, Payload(w, sent[w] + 1))
    /\ wlog' = Append(wlog, Observe(w, fwr.logFile))
    /\ pc' = [pc EXCEPT ![w] = "newline"]
    /\ UNCHANGED <<fwr, mutex, fds, today, sent, tasks, pipeVars>>

\* w.logFile.Write([]byte("\n"))
WriteNewline(w) ==
    /\ pc[w] = "newline"
    /\ disk' = FileWrite(fwr.logFile, Newline)
    /\ wlog' = Append(wlog, Observe(w, fwr.logFile))
    /\ pc' = [pc EXCEPT ![w] = "unlock"]
    /\ UNCHANGED <<fwr, mutex, fds, today, sent, tasks, pipeVars>>

\* the deferred w.mutex.Unlock()
WriteUnlock(w) ==
    /\ pc[w] = "unlock"
    /\ mutex' = Unlocked
    /\ sent' = [sent EXCEPT ![w] = @ + 1]
    /\ pc' = [pc EXCEPT ![w] = "idle"]
    /\ UNCHANGED <<fwr, fds, disk, today, tasks, wlog, pipeVars>>

(***************************************************************************)
(* scheduler and checkAndRotate, by the goroutine NewFileWithRotation      *)
(* starts when options.Rotate is set.                                      *)
(***************************************************************************)
\* a tick of the ticker: checkAndRotate parses the date out of the file name
\* and returns on a parse error or when the date is today's
checkAndRotate ==
    /\ pc[Checker] = "idle"
    /\ fwr.options.Rotate
    /\ LET ts == TrimSuffix(TrimPrefix(fwr.options.FileName, "proc-"), ".log")
           t == ParseDay(ts)
       IN pc' = [pc EXCEPT ![Checker] =
                     IF t = 0 THEN "idle"
                     ELSE IF ~dateEqual(t, today) THEN "close"
                     ELSE "idle"]
    /\ UNCHANGED <<fwr, mutex, fds, disk, today, sent, tasks, wlog, pipeVars>>

\* w.Close(): Sync and Close of the handle, the mutex not taken
Close ==
    /\ pc[Checker] = "close"
    /\ fds' = IF fwr.logFile = 0 THEN fds
              ELSE [fds EXCEPT ![fwr.logFile].closed = TRUE]
    /\ pc' = [pc EXCEPT ![Checker] =
                  IF fwr.options.Compress THEN "compress" ELSE "reopen"]
    /\ UNCHANGED <<fwr, mutex, disk, today, sent, tasks, wlog, pipeVars>>

\* compressLogs: snapshots the file name and starts the compression goroutine
compressLogs ==
    /\ pc[Checker] = "compress"
    /\ tasks' = tasks \cup {[filename |-> fwr.options.FileName,
                             archive |-> fwr.options.FileName \o <<".gz">>,
                             stage |-> "compress"]}
    /\ pc' = [pc EXCEPT ![Checker] = "reopen"]
    /\ UNCHANGED <<fwr, mutex, fds, disk, today, sent, wlog, pipeVars>>

\* CreateFile(filename): os.Open if that works (a read-only handle), else
\* os.Create; fails == the file system refuses both
CreateFile(filename, fails) ==
    IF fails THEN [err |-> TRUE, fds |-> fds, disk |-> disk]
    ELSE IF Lookup(filename) # NoFile
    THEN [err |-> FALSE,
          fds |-> Append(fds, [inode |-> Lookup(filename), closed |-> FALSE,
                               writable |-> FALSE]),
          disk |-> disk]
    ELSE [err |-> FALSE,
          fds |-> Append(fds, [inode |-> Len(disk.inodes) + 1,
                               closed |-> FALSE, writable |-> TRUE]),
          disk |-> [disk EXCEPT
                       !.names = [n \in DOMAIN disk.names \cup {filename} |->
                                      IF n = filename
                                      THEN Len(disk.inodes) + 1
                                      ELSE disk.names[n]],
                       !.inodes = Append(@, <<>>),
                       !.births = Append(@, today)]]

\* newLogger: under the mutex, buildRotateName, CreateFile, and the new
\* handle stored unless CreateFile failed
newLogger(fails) ==
    /\ pc[Checker] = "reopen"
    /\ mutex = Unlocked
    /\ LET filename == IF fwr.options.Rotate
                       THEN RotateName(fwr.options.Location, today)
                       ELSE fwr.options.FileName
           res == CreateFile(filename, fails)
       IN /\ fds' = res.fds
          /\ disk' = res.disk
          /\ fwr' = [fwr EXCEPT !.options.FileName = filename,
                                !.logFile = IF res.err THEN @
                                            ELSE Len(res.fds)]
    /\ pc' = [pc EXCEPT ![Checker] = "idle"]
    /\ UNCHANGED <<mutex, today, sent, tasks, wlog, pipeVars>>

\* the goroutine of compressLogs: archiver.CompressFile(filename, archive),
\* which cannot succeed when the source is gone; succeeds == the archiver
\* reports no error otherwise
Compress(task, succeeds) ==
    /\ task \in tasks /\ task.stage = "compress"
    /\ LET gz == task.archive
           ok == succeeds /\ Lookup(task.filename) # NoFile
       IN IF ok
          THEN /\ disk' = [disk EXCEPT
                              !.names = [n \in DOMAIN disk.names \cup {gz} |->
                                             IF n = gz
                                             THEN Len(disk.inodes) + 1
                                             ELSE disk.names[n]],
                              !.inodes = Append(@,
                                  disk.inodes[Lookup(task.filename)]),
                              !.births = Append(@, today)]
               /\ tasks' = (tasks \ {task}) \cup
                               {[task EXCEPT !.stage = "remove"]}
          ELSE /\ disk' = disk
               /\ tasks' = tasks \ {task}
    /\ UNCHANGED <<fwr, mutex, fds, today, pc, sent, wlog, pipeVars>>

\* os.RemoveAll(filename) after a successful compression
Remove(task) ==
    /\ task \in tasks /\ task.stage = "remove"
    /\ disk' = [disk EXCEPT !.names =
                    [n \in DOMAIN disk.names \ {task.filename} |->
                         disk.names[n]]]
    /\ tasks' = tasks \ {task}
    /\ UNCHANGED <<fwr, mutex, fds, today, pc, sent, wlog, pipeVars>>

\* midnight
NextDay ==
    /\ today < MaxDay
    /\ today' = today + 1
    /\ UNCHANGED <<fwr, mutex, fds, disk, pc, sent, tasks, wlog, pipeVars>>

(***************************************************************************)
(* Specification of the rotating writer: the state NewFileWithRotation     *)
(* leaves on day 1, then writers, the checker and the clock.               *)
(***************************************************************************)
\* the file of day 1 was created by the constructor, or found and opened
RotInit(location, compress, found) ==
    /\ fwr = [options |-> [Location |-> location, Rotate |-> TRUE,
                           FileName |-> RotateName(location, 1),
                           Compress |-> compress],
              logFile |-> 1]
    /\ mutex = Unlocked
    /\ fds = <<[inode |-> 1, closed |-> FALSE, writable |-> ~found]>>
    /\ disk = [names |-> [n \in {RotateName(location, 1)} |-> 1],
               inodes |-> <<<<>>>>, births |-> <<IF found THEN 0 ELSE 1>>,
               birthTime |-> TRUE]
    /\ today = 1
    /\ pc = [p \in {Checker} \cup Writers |-> "idle"]
    /\ sent = [w \in Writers |-> 0]
    /\ tasks = {}
    /\ wlog = <<>>

\* no rotating writer in use
RotIdle ==
    /\ fwr = [options |-> [Location |-> ".", Rotate |-> FALSE,
                           FileName |-> <<>>, Compress |-> FALSE],
              logFile |-> 0]
    /\ mutex = Unlocked
    /\ fds = <<>>
    /\ disk = [names |-> [n \in {} |-> 0], inodes |-> <<>>,
               births |-> <<>>, birthTime |-> TRUE]
    /\ today = 1
    /\ pc = [p \in {Checker} \cup Writers |-> "idle"]
    /\ sent = [w \in Writers |-> 0]
    /\ tasks = {}
    /\ wlog = <<>>

\* the default logger as init() leaves it, nothing logged yet
PipeIdle ==
    /\ loggers = <<NewLogger(LevelInfo)>>
    /\ hist = <<RootHist>>
    /\ last = [op |-> "init", logger |-> 0, result |-> 0, maxLevel |-> -1,
               ctx |-> "none", ferr |-> FALSE, record |-> NoRecord,
               arg |-> <<>>, pairs |-> <<>>, effects |-> <<>>,
               event |-> NoEvent,
               written |-> NoWrite, out |-> NoOutput, ret |-> "none"]
    /\ exitCode = -1

InitRotate ==
    /\ PipeIdle
    /\ \E location \in {".", "logs"}, compress \in BOOLEAN,
          found \in BOOLEAN : RotInit(location, compress, found)

NextRotate ==
    \/ \E w \in Writers : WriteLock(w)
    \/ \E w \in Writers : WriteData(w)
    \/ \E w \in Writers : WriteNewline(w)
    \/ \E w \in Writers : WriteUnlock(w)
    \/ checkAndRotate
    \/ Close
    \/ compressLogs
    \/ \E fails \in BOOLEAN : newLogger(fails)
    \/ \E task \in tasks, succeeds \in BOOLEAN : Compress(task, succeeds)
    \/ \E task \in tasks : Remove(task)
    \/ NextDay

SpecRotate == InitRotate /\ [][NextRotate]_vars

(***************************************************************************)
(* The rotating file writer that rotates on size and age (the second       *)
(* definition of FileWithRotation, after "Inspired by lumberjack").  Its   *)
(* Write is the same; the clock counts the ticks of the scheduler, which   *)
(* are rotationcheck (5 s) apart.  Its definitions carry the suffix 2.     *)
(***************************************************************************)
\* MaxSize is a number of megabytes
MB == 1024 * 1024

\* the bytes of a chunk: a payload as long as the threshold of MaxSize 1,
\* and the one byte of "\n"
PayloadBytes == MB
Bytes(chunk) == IF chunk = Newline THEN 1 ELSE PayloadBytes

RECURSIVE Size(_)
Size(content) ==
    IF content = <<>> THEN 0 ELSE Bytes(Head(content)) + Size(Tail(content))

\* time.Time.Format(BackupTimeFormat), BackupTimeFormat =
\* "2006-01-02T15-04-05", of tick t
FormatStamp(t) ==
    LET sec == (5 * t) % 60
    IN "2006-01-02T15-04-" \o (IF sec < 10 THEN "0" ELSE "") \o FormatInt(sec)

\* filepath.Ext: the suffix from the last dot of the last element on
Ext(name) ==
    IF name # <<>> /\ name[Len(name)] \in {".log", ".gz"}
    THEN name[Len(name)] ELSE ""

\* filepath.Join(Location, FileName), computed by each function that needs it
Filename2 == PathJoin(fwr.options.Location, fwr.options.FileName)

\* filenameBase + "." + time.Now().Format(BackupTimeFormat) + fileExt
BackupName(filename, now) ==
    TrimSuffix(filename, Ext(filename)) \o <<"." \o FormatStamp(now)>>
        \o (IF Ext(filename) = "" THEN <<>> ELSE <<Ext(filename)>>)

\* getCreationTime(filename): an error when the name is gone or the platform
\* reports no birth time
getCreationTime(filename) ==
    IF Lookup(filename) = NoFile \/ ~disk.birthTime
    THEN [err |-> TRUE, birth |-> 0]
    ELSE [err |-> FALSE, birth |-> disk.births[Lookup(filename)]]

\* (*os.File).Stat: an error on a closed handle, else the size of the file
\* the handle refers to
Stat(h) ==
    IF h = 0 \/ fds[h].closed THEN [err |-> TRUE, size |-> 0]
    ELSE [err |-> FALSE, size |-> Size(disk.inodes[fds[h].inode])]

\* mutant: the errors of Stat and getCreationTime are not looked at
checkAndRotate2IgnoresErrors ==
    /\ pc[Checker] = "idle"
    /\ fwr.options.Rotate
    /\ today < MaxTick
    /\ today' = today + 1
    /\ LET currentFileSizeMb == Stat(fwr.logFile)
           filebirthdate == getCreationTime(Filename2)
           filesizeCheck ==
               /\ fwr.options.MaxSize > 0
               /\ currentFileSizeMb.size >= fwr.options.MaxSize * MB
           filebirthdateCheck ==
               /\ fwr.options.RotationInterval > 0
               /\ filebirthdate.birth + fwr.options.RotationInterval < today'
       IN pc' = [pc EXCEPT ![Checker] =
                     IF filesizeCheck \/ filebirthdateCheck THEN "lock"
                     ELSE "idle"]
    /\ UNCHANGED <<fwr, mutex, fds, disk, sent, tasks, wlog, pipeVars>>

\* a tick of the scheduler: checkAndRotate up to its decision, the mutex
\* not taken
checkAndRotate2 ==
    /\ pc[Checker] = "idle"
    /\ fwr.options.Rotate
    /\ today < MaxTick
    /\ today' = today + 1
    /\ LET currentFileSizeMb == Stat(fwr.logFile)
           filebirthdate == getCreationTime(Filename2)
           filesizeCheck ==
               /\ fwr.options.MaxSize > 0
               /\ currentFileSizeMb.size >= fwr.options.MaxSize * MB
           filebirthdateCheck ==
               /\ fwr.options.RotationInterval > 0
               /\ filebirthdate.birth + fwr.options.RotationInterval < today'
       IN pc' = [pc EXCEPT ![Checker] =
                     IF currentFileSizeMb.err \/ filebirthdate.err THEN "idle"
                     ELSE IF filesizeCheck \/ filebirthdateCheck THEN "lock"
                     ELSE "idle"]
    /\ UNCHANGED <<fwr, mutex, fds, disk, sent, tasks, wlog, pipeVars>>

\* w.mutex.Lock(); w.Close(): Sync and Close of the current handle
Close2 ==
    /\ pc[Checker] = "lock"
    /\ mutex = Unlocked
    /\ mutex' = Checker
    /\ fds' = IF fwr.logFile = 0 THEN fds
              ELSE [fds EXCEPT ![fwr.logFile].closed = TRUE]
    /\ pc' = [pc EXCEPT ![Checker] = "compress"]
    /\ UNCHANGED <<fwr, disk, today, sent, tasks, wlog, pipeVars>>

\* mutant: the old name is unlinked and no new name bound
RenameDeletes(oldname, newname) ==
    [disk EXCEPT !.names =
         [n \in DOMAIN disk.names \ {oldname} |-> disk.names[n]]]

\* os.Rename(oldname, newname): the name newname now leads to the file of
\* oldname, replacing what it led to; nothing when oldname is gone
Rename(oldname, newname) ==
    IF Lookup(oldname) = NoFile THEN disk
    ELSE [disk EXCEPT !.names =
              [n \in (DOMAIN disk.names \ {oldname}) \cup {newname} |->
                   IF n = newname THEN disk.names[oldname]
                   ELSE disk.names[n]]]

\* compressLogs: the log renamed to its backup name, and with Compress the
\* goroutine that archives the backup started
compressLogs2 ==
    /\ pc[Checker] = "compress"
    /\ mutex = Checker
    /\ LET tmpFilename == BackupName(Filename2, today)
       IN /\ disk' = Rename(Filename2, tmpFilename)
          /\ tasks' = IF fwr.options.Compress
                      THEN tasks \cup
                           {[filename |-> tmpFilename,
                             archive |-> tmpFilename \o
                                 <<"." \o fwr.options.ArchiveFormat>>,
                             stage |-> "compress"]}
                      ELSE tasks
    /\ pc' = [pc EXCEPT ![Checker] = "reopen"]
    /\ UNCHANGED <<fwr, mutex, fds, today, sent, wlog, pipeVars>>

\* CreateFile(filename): os.OpenFile(filename, O_APPEND|O_CREATE, 0644), no
\* access mode given, which is O_RDONLY: the file is created when missing,
\* and the handle is read-only; fails == the file system refuses
CreateFile2(filename, fails) ==
    IF fails THEN [err |-> TRUE, fds |-> fds, disk |-> disk]
    ELSE IF Lookup(filename) # NoFile
    THEN [err |-> FALSE,
          fds |-> Append(fds, [inode |-> Lookup(filename), closed |-> FALSE,
                               writable |-> FALSE]),
          disk |-> disk]
    ELSE [err |-> FALSE,
          fds |-> Append(fds, [inode |-> Len(disk.inodes) + 1,
                               closed |-> FALSE, writable |-> FALSE]),
          disk |-> [disk EXCEPT
                       !.names = [n \in DOMAIN disk.names \cup {filename} |->
                                      IF n = filename
                                      THEN Len(disk.inodes) + 1
                                      ELSE disk.names[n]],
                       !.inodes = Append(@, <<>>),
                       !.births = Append(@, today)]]

\* w.newLogger(); w.mutex.Unlock(): the new handle stored unless CreateFile
\* failed, the error dropped
newLogger2(fails) ==
    /\ pc[Checker] = "reopen"
    /\ mutex = Checker
    /\ LET res == CreateFile2(Filename2, fails)
       IN /\ fds' = res.fds
          /\ disk' = res.disk
          /\ fwr' = [fwr EXCEPT !.logFile = IF res.err THEN @
                                            ELSE Len(res.fds)]
    /\ mutex' = Unlocked
    /\ pc' = [pc EXCEPT ![Checker] = "idle"]
    /\ UNCHANGED <<today, sent, tasks, wlog, pipeVars>>

\* a line written by an earlier run of the program
OldLine == <<Payload(0, 1), Newline>>

\* the state NewFileWithRotation leaves at tick 1: the directory made, the
\* log file found or created, and opened by CreateFile
RotInit2(compress, maxSize, interval, found, birthTime) ==
    /\ fwr = [options |-> [Location |-> "logs", Rotate |-> TRUE,
                           FileName |-> <<"proc", ".log">>,
                           Compress |-> compress, MaxSize |-> maxSize,
                           RotationInterval |-> interval,
                           ArchiveFormat |-> "gz"],
              logFile |-> 1]
    /\ mutex = Unlocked
    /\ fds = <<[inode |-> 1, closed |-> FALSE, writable |-> FALSE]>>
    /\ disk = [names |-> [n \in {PathJoin("logs", <<"proc", ".log">>)} |-> 1],
               inodes |-> <<IF found THEN OldLine ELSE <<>>>>,
               births |-> <<IF found THEN 0 ELSE 1>>,
               birthTime |-> birthTime]
    /\ today = 1
    /\ pc = [p \in {Checker} \cup Writers |-> "idle"]
    /\ sent = [w \in Writers |-> 0]
    /\ tasks = {}
    /\ wlog = <<>>

InitRotate2 ==
    /\ PipeIdle
    /\ \E compress \in BOOLEAN, maxSize \in {0, 1}, interval \in {0, 1},
          found \in BOOLEAN, birthTime \in BOOLEAN :
           RotInit2(compress, maxSize, interval, found, birthTime)

NextRotate2 ==
    \/ \E w \in Writers : WriteLock(w)
    \/ \E w \in Writers : WriteData(w)
    \/ \E w \in Writers : WriteNewline(w)
    \/ \E w \in Writers : WriteUnlock(w)
    \/ checkAndRotate2
    \/ Close2
    \/ compressLogs2
    \/ \E fails \in BOOLEAN : newLogger2(fails)
    \/ \E task \in tasks, succeeds \in BOOLEAN : Compress(task, succeeds)
    \/ \E task \in tasks : Remove(task)

SpecRotate2 == InitRotate2 /\ [][NextRotate2]_vars

\* the goroutines compressLogs starts are scheduled: each runs its
\* CompressFile to an end, and its RemoveAll after a success
SpecRotate2Fair ==
    /\ SpecRotate2
    /\ WF_vars(\E task \in tasks, succeeds \in BOOLEAN :
                   Compress(task, succeeds))
    /\ WF_vars(\E task \in tasks : Remove(task))

(***************************************************************************)
(* The life of a size and age writer in the hands of its owner:            *)
(* NewFileWithRotation step by step, the writes once it has returned the   *)
(* writer, and the owner's Close.                                          *)
(***************************************************************************)
Owner == NumWriters + 1

\* the directory of the log files, as an entry of the disk
Dir(location) == <<location \o "/">>

\* NewFileWithRotation up to os.MkdirAll: the struct is built and, with
\* Rotate, the scheduler goroutine started on its ticker
goScheduler2 ==
    /\ pc[Owner] = "new"
    /\ pc' = [pc EXCEPT ![Owner] = "mkdir",
                        ![Checker] = IF fwr.options.Rotate THEN "idle"
                                     ELSE @]
    /\ UNCHANGED <<fwr, mutex, fds, disk, today, sent, tasks, wlog, pipeVars>>

\* os.MkdirAll(Location, 0644); on an error the constructor returns it
MkdirAll2(fails) ==
    /\ pc[Owner] = "mkdir"
    /\ LET dir == Dir(fwr.options.Location)
       IN disk' = IF fails \/ Lookup(dir) # NoFile THEN disk
                  ELSE [disk EXCEPT
                           !.names = [n \in DOMAIN disk.names \cup {dir} |->
                                          IF n = dir
                                          THEN Len(disk.inodes) + 1
                                          ELSE disk.names[n]],
                           !.inodes = Append(@, <<>>),
                           !.births = Append(@, today)]
    /\ pc' = [pc EXCEPT ![Owner] = IF fails THEN "failed" ELSE "open"]
    /\ UNCHANGED <<fwr, mutex, fds, today, sent, tasks, wlog, pipeVars>>

\* newLoggerSync, under the mutex, and the return of the constructor: the
\* writer, or the error of CreateFile
newLoggerSync2(fails) ==
    /\ pc[Owner] = "open"
    /\ mutex = Unlocked
    /\ LET res == CreateFile2(Filename2, fails)
       IN /\ fds' = res.fds
          /\ disk' = res.disk
          /\ fwr' = [fwr EXCEPT !.logFile = IF res.err THEN @
                                            ELSE Len(res.fds)]
          /\ pc' = [pc EXCEPT ![Owner] = IF res.err THEN "failed"
                                         ELSE "done"]
    /\ UNCHANGED <<mutex, today, sent, tasks, wlog, pipeVars>>

\* the owner's call of Close: Sync and Close of the handle, the mutex not
\* taken and the scheduler not told
OwnerClose2 ==
    /\ pc[Owner] = "done"
    /\ fds' = IF fwr.logFile = 0 THEN fds
              ELSE [fds EXCEPT ![fwr.logFile].closed = TRUE]
    /\ pc' = [pc EXCEPT ![Owner] = "closed"]
    /\ UNCHANGED <<fwr, mutex, disk, today, sent, tasks, wlog, pipeVars>>

\* the owner has the writer: the constructor returned it
Constructed == pc[Owner] \in {"done", "closed"}

\* before NewFileWithRotation: the options given, a log of an earlier run on
\* disk or nothing there
InitNew2 ==
    /\ PipeIdle
    /\ \E rotate \in BOOLEAN, compress \in BOOLEAN, maxSize \in {0, 1},
          interval \in {0, 1}, found \in BOOLEAN, birthTime \in BOOLEAN :
           /\ fwr = [options |-> [Location |-> "logs", Rotate |-> rotate,
                                  FileName |-> <<"proc", ".log">>,
                                  Compress |-> compress, MaxSize |-> maxSize,
                                  RotationInterval |-> interval,
                                  ArchiveFormat |-> "gz"],
                     logFile |-> 0]
           /\ disk = IF found
                     THEN [names |->
                               [n \in {Dir("logs"),
                                       PathJoin("logs", <<"proc", ".log">>)}
                                    |-> IF n = Dir("logs") THEN 1 ELSE 2],
                           inodes |-> <<<<>>, OldLine>>,
                           births |-> <<0, 0>>, birthTime |-> birthTime]
                     ELSE [names |-> [n \in {} |-> 0], inodes |-> <<>>,
                           births |-> <<>>, birthTime |-> birthTime]
    /\ mutex = Unlocked
    /\ fds = <<>>
    /\ today = 1
    /\ pc = [p \in {Checker, Owner} \cup Writers |->
                 IF p = Checker THEN "off"
                 ELSE IF p = Owner THEN "new" ELSE "idle"]
    /\ sent = [w \in Writers |-> 0]
    /\ tasks = {}
    /\ wlog = <<>>

NextNew2 ==
    \/ goScheduler2
    \/ \E fails \in BOOLEAN : MkdirAll2(fails)
    \/ \E fails \in BOOLEAN : newLoggerSync2(fails)
    \/ OwnerClose2
    \/ \E w \in Writers : Constructed /\ WriteLock(w)
    \/ \E w \in Writers : WriteData(w)
    \/ \E w \in Writers : WriteNewline(w)
    \/ \E w \in Writers : WriteUnlock(w)
    \/ checkAndRotate2
    \/ Close2
    \/ compressLogs2
    \/ \E fails \in BOOLEAN : newLogger2(fails)
    \/ \E task \in tasks, succeeds \in BOOLEAN : Compress(task, succeeds)
    \/ \E task \in tasks : Remove(task)

SpecNew2 == InitNew2 /\ [][NextNew2]_vars

(***************************************************************************)
(* Specification of the dispatch pipeline: one logger, reconfigured at     *)
(* will, and every way of dispatching an event through it.                 *)
(***************************************************************************)
Ctors == {"Info", "Warning", "Error", "Debug", "Fatal", "Print", "Verbose",
          "Silent", "PkgPrint"}
Messages == {<<"m">>, <<"m", "\n">>}
Formats == {<<"m", "%s">>, <<"m", "\n">>}
Contexts == {"active", "context canceled"}
SlogLevels == {LevelTrace, SlogLevelVerbose, SlogLevelDebug, SlogLevelInfo,
               SlogLevelSilent, SlogLevelWarn, SlogLevelError, SlogLevelFatal}
Keys == {"k", "label"}
AttrValues == {StringValue("v"), Int64Value(42)}
Attrs1 == {<<Attr(k, v)>> : k \in Keys, v \in AttrValues}
StrPairs == {<<<<"k", "v">>>>, <<<<"label", "x">>>>}
HandleAttrs == {<<>>, <<Attr("k", Int64Value(42))>>,
                <<Attr("label", StringValue("x"))>>,
                <<Attr("k", AnyPanicValue("boom")), Attr("m", Int64Value(42))>>}

Init ==
    /\ PipeIdle
    /\ RotIdle

Next ==
    \/ \E level \in Levels : SetMaxLevel(1, level)
    \/ \E f \in {"cli", "custom"} : SetFormatter(1, f)
    \/ \E w \in {"cli", "cli2", "file"} : SetWriter(1, w)
    \/ \E c \in {<<TRUE, LevelInfo>>, <<FALSE, LevelFatal>>} :
           SetTimestamp(1, c[1], c[2])
    \/ \E ctor \in Ctors, pairs \in StrPairs, message \in Messages,
          ferr \in BOOLEAN :
           Msg(1, ctor, pairs, message, ferr)
    \/ \E ctor \in Ctors, format \in Formats, ferr \in BOOLEAN :
           Msgf(1, ctor, format, <<"a">>, ferr)
    \/ \E ctor \in Ctors, message \in Messages, ferr \in BOOLEAN :
           MsgFunc(1, ctor, message, ferr)
    \/ \E ctx \in Contexts, level \in SlogLevels, attrs \in HandleAttrs,
          ferr \in BOOLEAN :
           Handle(1, ctx, [Level |-> level, Message |-> <<"m">>,
                           Attrs |-> attrs], ferr)

Spec == Init /\ [][Next]_vars

(***************************************************************************)
(* Specification of the level filter of the slog handler: the max level is *)
(* set, and Enabled is asked about slog levels of a range of integers.     *)
(***************************************************************************)
AllSlogLevels == (0 - MaxSlogLevel)..MaxSlogLevel

\* a call of Logger.Enabled: the translation of the level and the answer
EnabledCall(l, level) ==
    /\ Running
    /\ last' = [Call("Enabled", l, FALSE) EXCEPT
                   !.record = [NoRecord EXCEPT !.Level = level],
                   !.result = slogLevelToGologgerLevel(level),
                   !.ret = IF Enabled(l, level) THEN "true" ELSE "false"]
    /\ UNCHANGED <<loggers, hist, exitCode, rotVars>>

NextLevels ==
    \/ \E level \in Levels : SetMaxLevel(1, level)
    \/ \E level \in AllSlogLevels : EnabledCall(1, level)

SpecLevels == Init /\ [][NextLevels]_vars

(***************************************************************************)
(* Specification of the conversion of attribute values: records of one     *)
(* attribute, of every kind, handled by the default logger.                *)
(***************************************************************************)
Float64Values ==
    {Float64Value("nan", 0), Float64Value("+inf", 0), Float64Value("-inf", 0),
     Float64Value("num", 314), Float64Value("num", 300),
     Float64Value("num", -50)}

DurationValues ==
    {DurationValue(0), DurationValue(100 * 1000000), DurationValue(1500),
     DurationValue(999), DurationValue(1500000000), DurationValue(-2000000)}

AllValues ==
    {StringValue("v"), StringValue(""), Int64Value(42), Int64Value(-7),
     Int64Value(0), Uint64Value(7), BoolValue(TRUE), BoolValue(FALSE),
     TimeValue(TRUE), TimeValue(FALSE), AnyNilValue, AnyPanicValue("boom"),
     GroupValue("g")} \cup Float64Values \cup DurationValues

NextValues ==
    \/ \E level \in Levels : SetMaxLevel(1, level)
    \/ \E level \in {SlogLevelInfo, SlogLevelError}, v \in AllValues :
           Handle(1, "active", [Level |-> level, Message |-> <<"m">>,
                                Attrs |-> <<Attr("k", v)>>], FALSE)

SpecValues == Init /\ [][NextValues]_vars

(***************************************************************************)
(* Specification of the timestamp policy: every policy is set, and events  *)
(* of every level are built by the constructors and by Handle, with and    *)
(* without a timestamp key of the caller's.                                *)
(***************************************************************************)
TimedPairs == {<<>>, <<<<"k", "v">>>>, <<<<"timestamp", "t">>>>}
TimedAttrs == {<<>>, <<Attr("timestamp", StringValue("t"))>>}

NextStamp ==
    \/ \E timestamp \in BOOLEAN, minLevel \in Levels :
           SetTimestamp(1, timestamp, minLevel)
    \/ \E level \in {LevelInfo, LevelVerbose} : SetMaxLevel(1, level)
    \/ \E ctor \in Ctors, pairs \in TimedPairs :
           Msg(1, ctor, pairs, <<"m">>, FALSE)
    \/ \E level \in SlogLevels, attrs \in TimedAttrs :
           Handle(1, "active", [Level |-> level, Message |-> <<"m">>,
                                Attrs |-> attrs], FALSE)

SpecStamp == Init /\ [][NextStamp]_vars

(***************************************************************************)
(* Specification of the machine-readable formatter: the logger is given    *)
(* the JSON or the console formatter and any writer, and events are        *)
(* logged with and without a msg key.                                      *)
(***************************************************************************)
JSONPairs == {<<>>, <<<<"msg", "x">>>>, <<<<"msg", ColouredX>>>>}

NextJSON ==
    \/ \E f \in {"json", "cli"} : SetFormatter(1, f)
    \/ \E w \in {"cli", "cli2", "file"} : SetWriter(1, w)
    \/ \E level \in Levels : SetMaxLevel(1, level)
    \/ \E ctor \in Ctors, pairs \in JSONPairs :
           Msg(1, ctor, pairs, <<"m">>, FALSE)

SpecJSON == Init /\ [][NextJSON]_vars

(***************************************************************************)
(* Specification of derivation: a root logger, the loggers derived from it *)
(* with WithAttrs and WithGroup, and records handled through any of them.  *)
(***************************************************************************)
AttrLists == {<<Attr("k", StringValue("v"))>>,
              <<Attr("k", Int64Value(42)), Attr("m", BoolValue(TRUE))>>}
GroupNames == {"", "g"}
RecordAttrs == {<<>>, <<Attr("k", Int64Value(7))>>}

\* the root as init() leaves it, or reconfigured by its owner
RootLoggers ==
    {NewLogger(LevelInfo),
     [NewLogger(LevelInfo) EXCEPT !.formatter = "custom", !.writer = "file",
                                  !.timestamp = TRUE,
                                  !.timestampMinLevel = LevelInfo]}

InitDerive ==
    /\ loggers \in {<<r>> : r \in RootLoggers}
    /\ hist = <<RootHist>>
    /\ last = [op |-> "init", logger |-> 0, result |-> 0, maxLevel |-> -1,
               ctx |-> "none", ferr |-> FALSE, record |-> NoRecord,
               arg |-> <<>>, pairs |-> <<>>, effects |-> <<>>,
               event |-> NoEvent,
               written |-> NoWrite, out |-> NoOutput, ret |-> "none"]
    /\ exitCode = -1
    /\ RotIdle

NextDerive ==
    \/ \E l \in 1..Len(loggers), attrs \in AttrLists : WithAttrs(l, attrs)
    \/ \E l \in 1..Len(loggers), name \in GroupNames : WithGroup(l, name)
    \/ \E l \in 1..Len(loggers), level \in {LevelError, LevelInfo} :
           SetMaxLevel(l, level)
    \/ \E l \in 1..Len(loggers), attrs \in RecordAttrs :
           Handle(l, "active", [Level |-> SlogLevelInfo, Message |-> <<"m">>,
                                Attrs |-> attrs], FALSE)

SpecDerive == InitDerive /\ [][NextDerive]_vars

(***************************************************************************)
(* Properties of the dispatch pipeline, read off the last call.            *)
(***************************************************************************)
Count(seq, x) == Cardinality({i \in DOMAIN seq : seq[i] = x})

FluentOps == {"Msg", "Msgf", "MsgFunc"}

\* the last call reached the point where an event is dispatched
Dispatched ==
    \/ last.op \in FluentOps
    \/ last.op = "Handle" /\ last.ctx = "active"

\* the level of the event of the last call
CallLevel ==
    IF last.op = "Handle" THEN slogLevelToGologgerLevel(last.record.Level)
    ELSE IF last.op \in FluentOps THEN CtorLevel(last.arg[1])
    ELSE -1

WriteCalls == Count(last.effects, "write")
FormatCalls == Count(last.effects, "format")

\* C1 as stated: a dispatch at level L through a logger of max level M calls
\* the writer exactly once when L <= M, and calls neither the formatter nor
\* the writer when L > M.
C1_WriterOncePerEnabledEvent ==
    Dispatched =>
        /\ CallLevel <= last.maxLevel => WriteCalls = 1
        /\ CallLevel > last.maxLevel => WriteCalls = 0 /\ FormatCalls = 0

\* C1 amended: the writer is called exactly once when L <= M and the
\* formatter returns no error; neither is called when L > M.
C1_LevelFilter ==
    Dispatched =>
        /\ (CallLevel <= last.maxLevel /\ ~last.ferr) =>
               WriteCalls = 1 /\ FormatCalls = 1
        /\ CallLevel > last.maxLevel => WriteCalls = 0 /\ FormatCalls = 0

C1_Witness ==
    /\ last.op = "Handle" /\ last.ctx = "active"
    /\ CallLevel = last.maxLevel /\ last.maxLevel = LevelWarning
    /\ WriteCalls = 1

\* the process was ended by the last call, after its single Write returned
ExitedAfterWrite ==
    /\ exitCode = 1
    /\ WriteCalls = 1 /\ Count(last.effects, "exit") = 1
    /\ \E i, j \in DOMAIN last.effects :
           /\ last.effects[i] = "write" /\ last.effects[j] = "exit"
           /\ i < j

NotExited == exitCode = -1 /\ Count(last.effects, "exit") = 0

\* C2 as stated: an enabled Fatal event ends the process with status 1 after
\* the Write call returned; an event of any other level never ends it.
C2_FatalAlwaysExits ==
    Dispatched =>
        /\ (CallLevel = LevelFatal /\ CallLevel <= last.maxLevel) =>
               ExitedAfterWrite
        /\ CallLevel # LevelFatal => NotExited

\* C2 amended: an enabled Fatal event whose formatting succeeds ends the
\* process with status 1, strictly after the Write call of that event; no
\* other call ends the process.
C2_FatalExitsAfterWrite ==
    /\ exitCode \in {-1, 1}
    /\ exitCode = 1 => Dispatched /\ CallLevel = LevelFatal
    /\ Dispatched =>
        /\ (CallLevel = LevelFatal /\ CallLevel <= last.maxLevel
            /\ ~last.ferr) => ExitedAfterWrite
        /\ CallLevel # LevelFatal => NotExited

C2_Witness ==
    /\ last.op = "Msg" /\ CallLevel = LevelFatal
    /\ ExitedAfterWrite
    /\ last.written.level = LevelFatal

\* C3: MsgFunc calls the supplier exactly once when the level of the event
\* is enabled at the time of the call, and not at all otherwise.
C3_SupplierOnceIffEnabled ==
    last.op = "MsgFunc" =>
        Count(last.effects, "supplier") =
            (IF CallLevel <= last.maxLevel THEN 1 ELSE 0)

C3_Witness ==
    /\ last.op = "MsgFunc"
    /\ CallLevel = last.maxLevel /\ last.maxLevel = LevelDebug
    /\ Count(last.effects, "supplier") = 1
    /\ last.event.message = <<"m">>

\* a cancelled context: Handle returns its error and calls neither the
\* formatter nor the writer
CancelledHandleIsInert ==
    (last.op = "Handle" /\ last.ctx # "active") =>
        /\ last.ret = last.ctx
        /\ FormatCalls = 0 /\ WriteCalls = 0
        /\ last.effects = <<>>

\* C10 as stated: with a cancelled context Handle returns the cancellation
\* error without formatting or writing; otherwise Handle returns nil.
C10_HandleReturnsNilUnlessCancelled ==
    /\ CancelledHandleIsInert
    /\ (last.op = "Handle" /\ last.ctx = "active") => last.ret = "nil"

\* C10 amended: otherwise Handle returns nil, except for an enabled Fatal
\* record that is formatted without error: the process then exits inside
\* the dispatch and Handle does not return.
C10_HandleCancellation ==
    /\ CancelledHandleIsInert
    /\ (last.op = "Handle" /\ last.ctx = "active") =>
           IF CallLevel = LevelFatal /\ CallLevel <= last.maxLevel
              /\ ~last.ferr
           THEN last.ret = "none" /\ exitCode = 1
           ELSE last.ret = "nil" /\ exitCode = -1

C10_Witness ==
    /\ last.op = "Handle" /\ last.ctx = "context canceled"
    /\ last.ret = "context canceled"
    /\ slogLevelToGologgerLevel(last.record.Level) <= last.maxLevel
    /\ last.record.Attrs # <<>>

(***************************************************************************)
(* Properties of derivation.                                               *)
(***************************************************************************)
DeriveOps == {"WithAttrs", "WithGroup"}
ConfigOps == {"SetMaxLevel", "SetFormatter", "SetWriter", "SetTimestamp"}

\* the records a logger may be asked to handle, to compare output shapes
ProbeRecords ==
    {[Level |-> SlogLevelInfo, Message |-> <<"m">>, Attrs |-> a] :
         a \in RecordAttrs}

\* C6: a derivation returns a new instance and leaves every field of the
\* parent (and of every other logger) as it was, so the parent's events keep
\* their keys; a configuration call changes only the logger it is made on.
C6_DerivationLeavesParentAlone ==
    [][/\ last'.op \in DeriveOps =>
            /\ Len(loggers') = Len(loggers) + 1
            /\ last'.result = Len(loggers') /\ last'.result # last'.logger
            /\ \A i \in 1..Len(loggers) :
                   /\ loggers'[i] = loggers[i]
                   /\ \A r \in ProbeRecords :
                          DOMAIN HandleEvent(i, r).metadata' =
                              DOMAIN HandleEvent(i, r).metadata
       /\ last'.op \in ConfigOps =>
            /\ Len(loggers') = Len(loggers)
            /\ \A i \in 1..Len(loggers) :
                   /\ i # last'.logger => loggers'[i] = loggers[i]
                   /\ loggers'[i].groupPrefix = loggers[i].groupPrefix
                   /\ loggers'[i].persistedAttrs = loggers[i].persistedAttrs
       /\ last'.op = "Handle" => loggers' = loggers
      ]_vars

\* a parent with bound attributes and a prefix of its own has been derived from
C6_Witness ==
    /\ last.op = "WithGroup" /\ last.logger = 2 /\ last.result = 3
    /\ loggers[2].persistedAttrs # <<>>
    /\ loggers[2].maxLevel = LevelError
    /\ loggers[3].groupPrefix # loggers[2].groupPrefix

RECURSIVE Flatten(_)
Flatten(lists) ==
    IF lists = <<>> THEN <<>> ELSE Head(lists) \o Flatten(Tail(lists))

HandledLast == last.op = "Handle" /\ last.ctx = "active"

\* the attributes written by the last Handle, in the order of writing
WrittenAttrs == loggers[last.logger].persistedAttrs \o last.record.Attrs

QualifiedKey(attr) == loggers[last.logger].groupPrefix \o attr.Key

BoundListIsConcatenation ==
    \A i \in 1..Len(loggers) :
        loggers[i].persistedAttrs = Flatten(hist[i].lists)

\* C7 as stated: the bound list is the concatenation, in call order, of the
\* lists passed along the chain, and a handled event carries every bound
\* attribute besides every attribute of the record.
C7_EveryBoundAttrCarried ==
    /\ BoundListIsConcatenation
    /\ HandledLast =>
           \A n \in DOMAIN WrittenAttrs :
               /\ QualifiedKey(WrittenAttrs[n]) \in DOMAIN last.event.metadata
               /\ last.event.metadata[QualifiedKey(WrittenAttrs[n])] =
                      formatAttrValue(WrittenAttrs[n].Value)

\* C7 amended: a handled event holds an entry under prefix + key for every
\* bound attribute and every attribute of the record; the entry holds the
\* attribute's formatted value unless a later attribute (bound later, or of
\* the record) has the same key, whose value then replaces it.
C7_BoundAttrsCarriedLastWins ==
    /\ BoundListIsConcatenation
    /\ HandledLast =>
           \A n \in DOMAIN WrittenAttrs :
               /\ QualifiedKey(WrittenAttrs[n]) \in DOMAIN last.event.metadata
               /\ (\A m \in DOMAIN WrittenAttrs :
                       m > n => WrittenAttrs[m].Key # WrittenAttrs[n].Key)
                  => last.event.metadata[QualifiedKey(WrittenAttrs[n])] =
                         formatAttrValue(WrittenAttrs[n].Value)

\* a record handled by a logger two WithAttrs calls away from the root
C7_Witness ==
    /\ HandledLast
    /\ Len(hist[last.logger].lists) = 2
    /\ Len(loggers[last.logger].persistedAttrs) = 2
    /\ last.record.Attrs = <<>>
    /\ "k" \in DOMAIN last.event.metadata

\* n1 + "." + ... + nk + "."
RECURSIVE GroupPath(_)
GroupPath(names) ==
    IF names = <<>> THEN ""
    ELSE Head(names) \o "." \o GroupPath(Tail(names))

\* n1 + "." + ... + nk, the joined path of a non-empty list of names
RECURSIVE JoinedPath(_)
JoinedPath(names) ==
    IF Len(names) = 1 THEN Head(names)
    ELSE Head(names) \o "." \o JoinedPath(Tail(names))

RECURSIVE Ancestors(_)
Ancestors(i) ==
    IF hist[i].parent = 0 THEN {i} ELSE {i} \cup Ancestors(hist[i].parent)

\* the groups entered between ancestor j and logger i
GroupsSince(j, i) ==
    SubSeq(hist[i].groups, Len(hist[j].groups) + 1, Len(hist[i].groups))

\* C8: from a handler of prefix P, WithGroup(n1) ... WithGroup(nk) yields
\* P + n1 + "." + ... + nk + ".", which is what one derivation with the
\* joined path yields, and a record attribute of key k is emitted as prefix + k.
C8_GroupPrefixComposes ==
    /\ \A i \in 1..Len(loggers) : \A j \in Ancestors(i) :
           /\ loggers[i].groupPrefix =
                  loggers[j].groupPrefix \o GroupPath(GroupsSince(j, i))
           /\ GroupsSince(j, i) # <<>> =>
                  loggers[i].groupPrefix =
                      NewPrefix(loggers[j].groupPrefix,
                                JoinedPath(GroupsSince(j, i)))
    /\ HandledLast =>
           \A n \in DOMAIN last.record.Attrs :
               QualifiedKey(last.record.Attrs[n])
                   \in DOMAIN last.event.metadata

\* a record with an attribute handled under two nested groups, one unnamed
C8_Witness ==
    /\ HandledLast
    /\ hist[last.logger].groups = <<"", "g">>
    /\ loggers[last.logger].groupPrefix = ".g."
    /\ ".g.k" \in DOMAIN last.event.metadata

\* C9: an attribute bound before a later WithGroup(g) is emitted under the
\* prefix that was open when it was bound, without g; attributes bound after
\* it and the attributes of the record are emitted under the g-prefixed key.
C9_BoundAttrsKeepBindingPrefix ==
    HandledLast =>
        /\ \A n \in DOMAIN loggers[last.logger].persistedAttrs :
               (hist[last.logger].bound[n]
                    \o loggers[last.logger].persistedAttrs[n].Key)
                   \in DOMAIN last.event.metadata
        /\ \A n \in DOMAIN last.record.Attrs :
               QualifiedKey(last.record.Attrs[n])
                   \in DOMAIN last.event.metadata

(***************************************************************************)
(* Properties of the rotating writer.                                      *)
(***************************************************************************)
\* the handle is closed and its successor is not installed yet
Rotating == pc[Checker] \in {"compress", "reopen"}

\* goroutine w is inside Write, holding the mutex
Writing(w) == pc[w] \in {"data", "newline", "unlock"}

\* C4: writes and the rotate sequence are mutually exclusive: no Write is
\* inside its critical section while the handle is closed and its successor
\* is not installed, and no Write ever uses a handle rotation has closed.
C4_RotationExcludesWrites ==
    /\ \A w \in Writers : ~(Writing(w) /\ Rotating)
    /\ \A i \in DOMAIN wlog : ~wlog[i].closed

\* every Write call has returned and no rotation or compression is under way
Quiescent ==
    /\ \A w \in Writers : sent[w] = LinesPerWriter /\ pc[w] = "idle"
    /\ pc[Checker] = "idle"
    /\ tasks = {}

\* the places of the output (the current file and its backups) where the
\* payload of line j of writer w is followed at once by a line terminator
CompleteLines(w, j) ==
    {<<n, i>> \in (DOMAIN disk.names) \X
                 (1..(2 * NumWriters * LinesPerWriter)) :
        LET content == disk.inodes[disk.names[n]]
        IN i < Len(content) /\ content[i] = Payload(w, j)
                            /\ content[i + 1] = Newline}

\* C5: once K writers have each emitted M lines, the current file and its
\* backups hold exactly K*M complete lines: every payload once, followed at
\* once by its line terminator, and nothing else.
C5_AllLinesComplete ==
    Quiescent =>
        /\ \A w \in Writers, j \in 1..LinesPerWriter :
               Cardinality(CompleteLines(w, j)) = 1
        /\ \A n \in DOMAIN disk.names :
               Len(disk.inodes[disk.names[n]]) % 2 = 0

(***************************************************************************)
(* Properties of the two front ends: the fluent API and the slog adapter.  *)
(***************************************************************************)
\* the slog level the equivalence tests pair with each constructor
SlogLevelOf(ctor) ==
    CASE ctor = "Info" -> SlogLevelInfo
      [] ctor = "Warning" -> SlogLevelWarn
      [] ctor = "Error" -> SlogLevelError
      [] ctor = "Debug" -> SlogLevelDebug
      [] ctor = "Verbose" -> SlogLevelVerbose
      [] ctor = "Fatal" -> SlogLevelFatal
      [] ctor \in {"Silent", "Print", "PkgPrint"} -> SlogLevelSilent

\* slog.String(key, value) for each pair
RECURSIVE StringAttrs(_)
StringAttrs(pairs) ==
    IF pairs = <<>> THEN <<>>
    ELSE <<Attr(Head(pairs)[1], StringValue(Head(pairs)[2]))>>
             \o StringAttrs(Tail(pairs))

PairLists == {<<>>, <<<<"k", "v">>>>, <<<<"k", "v">>, <<"label", "x">>>>,
              <<<<"k", "v">>, <<"k", "w">>>>}

\* what l.Ctor().Str(...)...Msg(message) hands to the writer
FluentPayload(l, ctor, pairs, message, ferr) ==
    Log(l, [StrAll(NewEvent(ctor, l), pairs) EXCEPT !.message = message],
        ferr).written.data

\* what Handle hands to the writer for the record of that level and message
\* with the pairs as string attributes
SlogPayload(l, level, pairs, message, ferr) ==
    Log(l, HandleEvent(l, [Level |-> level, Message |-> message,
                           Attrs |-> StringAttrs(pairs)]), ferr).written.data

\* loggers configured through the Set* calls only
PlainLoggers ==
    {l \in 1..Len(loggers) :
        loggers[l].groupPrefix = "" /\ loggers[l].persistedAttrs = <<>>}

SamePayload(l, ctor) ==
    \A pairs \in PairLists, message \in Messages, ferr \in BOOLEAN :
        FluentPayload(l, ctor, pairs, message, ferr) =
            SlogPayload(l, SlogLevelOf(ctor), pairs, message, ferr)

InfoAsSilent(l) ==
    /\ LevelInfo <= loggers[l].maxLevel
    /\ loggers[l].timestamp =>
           (LevelInfo >= loggers[l].timestampMinLevel
                <=> LevelSilent >= loggers[l].timestampMinLevel)

TerminatingNewlines(stream) ==
    Cardinality({i \in DOMAIN stream :
                    stream[i].what = "data" /\ stream[i].data.newline})
        + Cardinality({i \in DOMAIN stream : stream[i].what = "newline"})

\* the pairs the caller set with Str, as the set a map keeps of them
RECURSIVE CallerPairs(_, _)
CallerPairs(m, pairs) ==
    IF pairs = <<>> THEN {<<k, m[k]>> : k \in DOMAIN m}
    ELSE CallerPairs(MapSet(m, Head(pairs)[1], Head(pairs)[2]), Tail(pairs))

\* the timestamp pair of an event the logger stamps
StampPairs(l, level) ==
    IF loggers[l].timestamp /\ level >= loggers[l].timestampMinLevel
    THEN {<<"timestamp", NowRFC3339>>} ELSE {}

\* the last call sent an enabled, labelled, non-Fatal event through the
\* console formatter and the console writer
ConsoleLabelledCall ==
    /\ last.op = "Msg" /\ CtorLabelled(last.arg[1])
    /\ CallLevel # LevelFatal /\ CallLevel <= last.maxLevel
    /\ loggers[last.logger].formatter = "cli"
    /\ loggers[last.logger].writer = "cli"

\* C12: such an event is emitted as the bracketed label, the message, one
\* key=value pair for each pair the caller set (and the timestamp of a stamped
\* event), ended by exactly one newline, and the process does not exit.
C12_ConsoleLineShape ==
    ConsoleLabelledCall =>
        /\ last.out.stdout = <<>>
        /\ Len(last.out.stderr) >= 1
        /\ last.out.stderr[1].what = "data"
        /\ last.out.stderr[1].data.label =
               "[" \o labels(CallLevel) \o "] "
        /\ last.out.stderr[1].data.message = last.event.message
        /\ last.out.stderr[1].data.pairs =
               CallerPairs(EmptyMap, last.pairs)
                   \cup StampPairs(last.logger, CallLevel)
        /\ TerminatingNewlines(last.out.stderr) = 1
        /\ exitCode = -1

\* the last call dispatched an event the library built at Silent level
SilentCall ==
    \/ last.op \in FluentOps /\ last.arg[1] \in {"Silent", "Print"}
    \/ /\ last.op = "Handle" /\ last.ctx = "active"
       /\ slogLevelToGologgerLevel(last.record.Level) = LevelSilent

\* the caller of the last call set a pair or an attribute under the key label
CallerSetLabel ==
    \/ \E i \in DOMAIN last.pairs : last.pairs[i][1] = "label"
    \/ \E i \in DOMAIN last.record.Attrs :
           loggers[last.logger].groupPrefix \o last.record.Attrs[i].Key
               = "label"

\* the console formatter put no bracketed prefix in what was written
NoBracketedPrefix ==
    (last.written # NoWrite /\ last.written.data.kind = "cli") =>
        last.written.data.label = ""

\* C13 as stated: a Silent event built by Silent(), Logger.Print() or Handle
\* has no label key in its metadata when it is dispatched, so the console
\* formatter emits no bracketed prefix for it.
C13_SilentNeverLabelled ==
    SilentCall =>
        /\ "label" \notin DOMAIN last.event.metadata
        /\ NoBracketedPrefix

\* C13 amended: the library sets no label on such an event: its metadata has
\* a label key exactly when the caller set one (a pair or an attribute of key
\* label), and without one the console formatter emits no bracketed prefix.
C13_SilentLabelledOnlyByCaller ==
    SilentCall =>
        /\ "label" \in DOMAIN last.event.metadata <=> CallerSetLabel
        /\ ~CallerSetLabel => NoBracketedPrefix

\* a slog record that maps to Silent went through the console formatter
C13_Witness ==
    /\ last.op = "Handle" /\ last.ctx = "active"
    /\ last.record.Level = SlogLevelSilent
    /\ last.record.Attrs = <<Attr("k", Int64Value(42))>>
    /\ last.written.data.kind = "cli"
    /\ last.written.data.label = ""
    /\ DOMAIN last.event.metadata = {"k"}

\* the last call handed a payload to the console writer
ConsoleWrite ==
    /\ WriteCalls = 1
    /\ last.written.writer \in {"cli", "cli2"}

\* C14: the console writer puts a Silent payload and its newline on stdout
\* and nothing on stderr, and the payload and the newline of every other
\* level on stderr and nothing on stdout.
C14_StreamByLevel ==
    ConsoleWrite =>
        IF last.written.level = LevelSilent
        THEN /\ last.out.stderr = <<>>
             /\ last.out.stdout =
                    <<DataChunk(last.written.data), NewLineChunk>>
        ELSE /\ last.out.stdout = <<>>
             /\ last.out.stderr =
                    <<DataChunk(last.written.data), NewLineChunk>>

(***************************************************************************)
(* Properties of error handling in the dispatch.                           *)
(***************************************************************************)
\* the formatter was invoked by the last call and returned an error
FormatFailed == Dispatched /\ FormatCalls = 1 /\ last.ferr

\* C15: when the formatter returns an error for an event, the writer is not
\* invoked, nothing reaches the console, the caller gets no error (Handle
\* returns nil) and the process keeps running, whatever the level.
C15_FormatErrorIsSilent ==
    FormatFailed =>
        /\ WriteCalls = 0 /\ last.written = NoWrite
        /\ last.out = NoOutput
        /\ Count(last.effects, "exit") = 0 /\ exitCode = -1
        /\ last.op = "Handle" => last.ret = "nil"
        /\ last.op \in FluentOps => last.ret = "none"

\* a Fatal event met a failing formatter
C15_Witness ==
    /\ FormatFailed
    /\ last.op = "Handle" /\ CallLevel = LevelFatal
    /\ last.ret = "nil" /\ exitCode = -1

(***************************************************************************)
(* Properties of the writer that rotates on size and age.                  *)
(***************************************************************************)
\* the rotations that took place: each closes the handle it found
Rotations == Cardinality({h \in DOMAIN fds : fds[h].closed})

\* the Write calls that returned, each of which handed a payload and "\n"
RECURSIVE SumSent(_)
SumSent(ws) ==
    IF ws = {} THEN 0
    ELSE LET w == CHOOSE x \in ws : TRUE IN sent[w] + SumSent(ws \ {w})

WritesReturned == SumSent(Writers)
BytesHanded == WritesReturned * (PayloadBytes + 1)

\* a writer with the size threshold of one megabyte and no age threshold,
\* whose log file was created empty by the constructor
SizedFresh ==
    /\ fwr.options.Rotate
    /\ fwr.options.MaxSize = 1 /\ fwr.options.RotationInterval = 0
    /\ disk.births[1] = 1

\* C16: with a size threshold of N bytes, once N+1 bytes were written, one
\* rotation and no more has taken place by the time the next Write returns.
C16_RotatesOnceOverThreshold ==
    SizedFresh =>
        /\ BytesHanded <= 2 * (fwr.options.MaxSize * MB + 1) => Rotations <= 1
        /\ BytesHanded >= 2 * (fwr.options.MaxSize * MB + 1) => Rotations = 1

\* the backup name and the archive name of the rotation of tick t
Backup(t) == BackupName(Filename2, t)
Archive(t) == Backup(t) \o <<"." \o fwr.options.ArchiveFormat>>
Ticks == 1..MaxTick

\* the content of file i is on disk as the backup of a rotation, or in the
\* archive of one
KeptAsBackup(i) == \E t \in Ticks : Lookup(Backup(t)) = i
KeptAsArchive(i) ==
    \E t \in Ticks : /\ Lookup(Archive(t)) # NoFile
                     /\ disk.inodes[Lookup(Archive(t))] = disk.inodes[i]

\* the logs that were rotated away: closed by a rotation that is past its
\* rename
RotatedLogs ==
    {fds[h].inode : h \in {x \in DOMAIN fds :
        /\ fds[x].closed
        /\ ~(pc[Checker] = "compress" /\ x = fwr.logFile)}}

PreRotationContentKept ==
    \A i \in RotatedLogs : KeptAsBackup(i) \/ KeptAsArchive(i)

\* a step that unlinks the backup of tick t finds its archive, with the
\* content of the backup, on disk
RemovedOnlyAfterArchive ==
    \A t \in Ticks :
        (Lookup(Backup(t)) # NoFile /\ Backup(t) \notin DOMAIN disk'.names)
            => /\ Lookup(Archive(t)) # NoFile
               /\ disk.inodes[Lookup(Archive(t))] =
                      disk.inodes[Lookup(Backup(t))]

\* the goroutine that archives the backup of tick t has not ended
Pending(t) == \E task \in tasks : task.filename = Backup(t)
Archived(t) == Lookup(Archive(t)) # NoFile /\ Lookup(Backup(t)) = NoFile
LeftAsBackup(t) ==
    /\ ~Pending(t)
    /\ Lookup(Backup(t)) # NoFile /\ Lookup(Archive(t)) = NoFile

\* C17: a rotation never deletes the pre-rotation log, which is renamed to
\* a timestamped backup; with compression an archive of the backup
\* eventually exists and the backup is eventually removed, only after the
\* archive was created; the content is on disk as backup or archive always.
C17_BackupAlwaysArchived ==
    /\ []PreRotationContentKept
    /\ [][RemovedOnlyAfterArchive]_vars
    /\ \A t \in Ticks : Pending(t) ~> Archived(t)

\* C17 as the code has it: the same, the archive existing and the backup
\* being removed unless CompressFile reports an error, in which case the
\* backup stays and no archive is promised.
C17_BackupArchivedUnlessCompressFails ==
    /\ []PreRotationContentKept
    /\ [][RemovedOnlyAfterArchive]_vars
    /\ \A t \in Ticks : Pending(t) ~> (Archived(t) \/ LeftAsBackup(t))

\* the line of an earlier run, rotated away, is in an archive and its
\* backup is gone
C17_Witness ==
    \E t \in Ticks :
        /\ Archived(t)
        /\ disk.inodes[Lookup(Archive(t))] = OldLine
        /\ Rotations >= 1

(***************************************************************************)
(* Properties of the slog handler's level filter.                          *)
(***************************************************************************)
\* C18: for every slog level v and max level M, with a context that is not
\* cancelled and a formatter that does not fail, Handle invokes the writer
\* for a record of level v if and only if Enabled(v) is true; both translate
\* v and compare the translation with M.
C18_HandleWritesIffEnabled ==
    (HandledLast /\ ~last.ferr) =>
        /\ WriteCalls = 1 <=> Enabled(last.logger, last.record.Level)
        /\ WriteCalls = 0 <=> ~Enabled(last.logger, last.record.Level)
        /\ Enabled(last.logger, last.record.Level)
               <=> slogLevelToGologgerLevel(last.record.Level)
                       <= last.maxLevel

\* a record of slog level Error was written through a logger whose max
\* level is Error, the comparison being an equality
C18_Witness ==
    /\ HandledLast /\ ~last.ferr
    /\ last.record.Level = SlogLevelError /\ last.maxLevel = LevelError
    /\ Enabled(last.logger, last.record.Level)
    /\ WriteCalls = 1

\* the slog level the last call of Enabled was asked about, and the level
\* it was translated to
Asked == last.op = "Enabled"
AskedLevel == last.record.Level
Translated == last.result

\* C19: the translation of slog levels is total and by thresholds, Fatal
\* first: >= 12 is Fatal, >= 8 Error, >= 4 Warning, >= 1 Silent, >= 0 Info,
\* >= -4 Debug, and every lower level, -6 and -8 included, is Verbose; slog
\* Debug, Info, Warn and Error become Debug, Info, Warning and Error.
C19_LevelTranslationByThreshold ==
    Asked =>
        /\ Translated \in Levels
        /\ AskedLevel >= 12 => Translated = LevelFatal
        /\ (AskedLevel >= 8 /\ AskedLevel < 12) => Translated = LevelError
        /\ (AskedLevel >= 4 /\ AskedLevel < 8) => Translated = LevelWarning
        /\ (AskedLevel >= 1 /\ AskedLevel < 4) => Translated = LevelSilent
        /\ AskedLevel = 0 => Translated = LevelInfo
        /\ (AskedLevel >= -4 /\ AskedLevel < 0) => Translated = LevelDebug
        /\ AskedLevel < -4 => Translated = LevelVerbose
        /\ AskedLevel = SlogLevelDebug => Translated = LevelDebug
        /\ AskedLevel = SlogLevelInfo => Translated = LevelInfo
        /\ AskedLevel = SlogLevelWarn => Translated = LevelWarning
        /\ AskedLevel = SlogLevelError => Translated = LevelError
        /\ AskedLevel \in {SlogLevelVerbose, LevelTrace}
               => Translated = LevelVerbose

\* a level between two named ones, 3, was translated to Silent
C19_Witness ==
    /\ Asked /\ AskedLevel = 3
    /\ Translated = LevelSilent

(***************************************************************************)
(* Properties of the conversion of attribute values.                       *)
(***************************************************************************)
\* the last call was a Handle of a record with an attribute whose conversion
\* panics
PanickedCall ==
    /\ HandledLast
    /\ \E i \in DOMAIN WrittenAttrs : Panics(WrittenAttrs[i].Value)

\* what the event must hold for attribute i, unless a later attribute has
\* its key: the fallback with the reason, or the converted value
Processed(i) ==
    LET a == WrittenAttrs[i]
        key == QualifiedKey(a)
    IN (\A j \in DOMAIN WrittenAttrs :
            j > i => QualifiedKey(WrittenAttrs[j]) # key)
       => /\ key \in DOMAIN last.event.metadata
          /\ last.event.metadata[key] =
                 IF Panics(a.Value)
                 THEN "<error formatting value: " \o a.Value.s \o ">"
                 ELSE formatAttrValue(a.Value)

PanicContained ==
    /\ \A i \in DOMAIN WrittenAttrs : Processed(i)
    /\ last.event.logger = last.logger
    /\ last.event.level = slogLevelToGologgerLevel(last.record.Level)
    /\ ~last.ferr => (WriteCalls = 1 <=> last.event.level <= last.maxLevel)

\* C20: when the conversion of an attribute value panics, the panic is
\* caught in the conversion, the value becomes a fallback string holding
\* the reason, the remaining attributes are processed, and Handle
\* dispatches the event and returns nil.
C20_PanicInConversionContained ==
    PanickedCall => PanicContained /\ last.ret = "nil"

\* C20 as the code has it: the same, Handle returning nil unless the event
\* is an enabled Fatal one written without a formatter error, which ends
\* the process in Log before Handle returns.
C20_PanicContainedExitOnFatal ==
    PanickedCall =>
        /\ PanicContained
        /\ IF last.event.level = LevelFatal /\ WriteCalls = 1
           THEN last.ret = "none" /\ exitCode = 1
           ELSE last.ret = "nil" /\ exitCode = -1

\* the first attribute of a written record panicked and the second is in
\* the event
C20_Witness ==
    /\ PanickedCall
    /\ Panics(last.record.Attrs[1].Value)
    /\ last.event.metadata["k"] = "<error formatting value: boom>"
    /\ last.event.metadata["m"] = "42"
    /\ WriteCalls = 1 /\ last.ret = "nil"

\* the last call handled a record of one attribute; its value, and the
\* string the event holds for it
OneValueHandled == HandledLast /\ Len(last.record.Attrs) = 1
HandledValue == last.record.Attrs[1].Value
Rendered == last.event.metadata[QualifiedKey(last.record.Attrs[1])]

\* C21: a string passes through unchanged, an integer renders in base 10, a
\* boolean as true or false, NaN, +Infinity and -Infinity as NaN, +Inf and
\* -Inf, a duration of 100 milliseconds as 100ms, the zero timestamp as
\* 0001-01-01T00:00:00Z, and a nil untyped value as <nil>.
C21_ValueConversionRules ==
    OneValueHandled =>
        /\ HandledValue.kind = "String" => Rendered = HandledValue.s
        /\ HandledValue = Int64Value(42) => Rendered = "42"
        /\ HandledValue = Int64Value(-7) => Rendered = "-7"
        /\ HandledValue = Int64Value(0) => Rendered = "0"
        /\ HandledValue = Uint64Value(7) => Rendered = "7"
        /\ HandledValue = BoolValue(TRUE) => Rendered = "true"
        /\ HandledValue = BoolValue(FALSE) => Rendered = "false"
        /\ HandledValue = Float64Value("nan", 0) => Rendered = "NaN"
        /\ HandledValue = Float64Value("+inf", 0) => Rendered = "+Inf"
        /\ HandledValue = Float64Value("-inf", 0) => Rendered = "-Inf"
        /\ HandledValue = DurationValue(100 * 1000000) => Rendered = "100ms"
        /\ HandledValue = TimeValue(TRUE) => Rendered = "0001-01-01T00:00:00Z"
        /\ HandledValue = AnyNilValue => Rendered = "<nil>"

\* a duration of 100 milliseconds was handled and written
C21_Witness ==
    /\ OneValueHandled
    /\ HandledValue = DurationValue(100 * 1000000)
    /\ Rendered = "100ms" /\ WriteCalls = 1

(***************************************************************************)
(* Properties of the handle and the checker of the size and age writer.    *)
(***************************************************************************)
\* the handle of the writer is open and refers to the file the log path
\* leads to
HandleOpenAtLogPath ==
    /\ fwr.logFile # 0
    /\ ~fds[fwr.logFile].closed
    /\ fds[fwr.logFile].inode = Lookup(Filename2)

\* C22: whenever the mutex is not held (the writer is never shut down by its
\* owner here), the handle refers to an open file at the log path, also
\* after a rotation whose reopen step failed.
C22_HandleOpenWhenUnlocked ==
    mutex = Unlocked => HandleOpenAtLogPath

\* the size and the birth time of the file at the log path
CurrentSize ==
    IF Lookup(Filename2) = NoFile THEN 0
    ELSE Size(disk.inodes[Lookup(Filename2)])

FileBirthTime ==
    IF Lookup(Filename2) = NoFile THEN 0 ELSE disk.births[Lookup(Filename2)]

\* the condition of rotation at time now, MaxSize counted in megabytes
SizeExceeded ==
    fwr.options.MaxSize > 0 /\ CurrentSize >= fwr.options.MaxSize * MB
AgeExceeded(now) ==
    /\ fwr.options.RotationInterval > 0
    /\ FileBirthTime + fwr.options.RotationInterval < now

\* a step that is a check tick, and one that starts a rotation
TickStep == pc[Checker] = "idle" /\ today' = today + 1
StartsRotation == pc'[Checker] = "lock"

\* C23: a check tick performs a rotation if and only if the size threshold
\* is set and reached or the age threshold is set and passed; with both
\* thresholds zero no rotation ever occurs.
C23_TickRotatesIffThreshold ==
    /\ [][TickStep =>
            (StartsRotation <=> (SizeExceeded \/ AgeExceeded(today')))]_vars
    /\ []((fwr.options.MaxSize = 0 /\ fwr.options.RotationInterval = 0)
             => Rotations = 0)

\* a step of the check task: a tick, or a step of a rotation
CheckerStep == TickStep \/ pc'[Checker] # pc[Checker]

\* C24: the periodic check runs only for a writer whose construction has
\* succeeded: no check executes before the directory exists and the initial
\* file is open, and when the constructor returns an error no check task is
\* left running.
C24_ChecksOnlyAfterConstruction ==
    /\ [][TickStep =>
            /\ Lookup(Dir(fwr.options.Location)) # NoFile
            /\ fwr.logFile # 0
            /\ Constructed]_vars
    /\ [](pc[Owner] = "failed" => pc[Checker] = "off")

\* C25: once the owner has closed the writer the check task is stopped: it
\* performs no further check, close, rename or reopen.
C25_NoCheckAfterClose ==
    [][pc[Owner] = "closed" => ~CheckerStep]_vars

\* the size or the creation time of the log cannot be read
ReadFails ==
    \/ fwr.logFile = 0
    \/ fds[fwr.logFile].closed
    \/ Lookup(Filename2) = NoFile
    \/ ~disk.birthTime

\* C26: a check that fails to read the size or the creation time changes
\* nothing, the handle, the files, the mutex and the started goroutines
\* included, starts no rotation, and leaves the checker waiting for the
\* next tick.
C26_FailedReadSkipsCheck ==
    [][(TickStep /\ ReadFails) =>
           /\ fwr' = fwr /\ fds' = fds /\ disk' = disk
           /\ mutex' = mutex /\ tasks' = tasks
           /\ ~StartsRotation
           /\ pc'[Checker] = "idle"]_vars

\* two ticks have passed over a log that is over the size threshold and
\* whose creation time cannot be read, and the checker waits for the next
C26_Witness ==
    /\ ~disk.birthTime /\ SizeExceeded
    /\ today >= 3 /\ today < MaxTick
    /\ pc[Checker] = "idle" /\ Rotations = 0
    /\ HandleOpenAtLogPath

(***************************************************************************)
(* Properties of the order of the levels.                                  *)
(***************************************************************************)
\* the event of the last call passed the test of Log
Admitted == Dispatched /\ FormatCalls = 1

\* C27: under the test level <= maxLevel, a Silent event is admitted for
\* every max level that admits Info, and a Fatal event for every max level.
C27_SilentWithInfoFatalAlways ==
    /\ \A M \in Levels :
           /\ LevelInfo <= M => LevelSilent <= M
           /\ LevelFatal <= M
    /\ (Dispatched /\ CallLevel = LevelSilent /\ LevelInfo <= last.maxLevel)
           => Admitted
    /\ (Dispatched /\ CallLevel = LevelFatal) => Admitted

\* a Silent event of the fluent API was written with the max level at Info
C27_Witness ==
    /\ last.op \in FluentOps /\ CallLevel = LevelSilent
    /\ last.maxLevel = LevelInfo
    /\ Admitted /\ WriteCalls = 1

\* C28: Enabled is monotone in slog severity: for every max level and slog
\* levels a >= b, Enabled(b) implies Enabled(a).
C28_EnabledMonotone ==
    /\ \A a, b \in AllSlogLevels :
           (a >= b /\ Enabled(1, b)) => Enabled(1, a)
    /\ (Asked /\ last.ret = "true") =>
           \A a \in AllSlogLevels :
               a >= AskedLevel => Enabled(last.logger, a)

\* Enabled said yes to slog Info, below Warn, Error and Fatal, at max level
\* Info
C28_Witness ==
    /\ Asked /\ AskedLevel = SlogLevelInfo /\ last.ret = "true"
    /\ loggers[last.logger].maxLevel = LevelInfo
    /\ Enabled(last.logger, SlogLevelWarn)
    /\ ~Enabled(last.logger, SlogLevelDebug)

(***************************************************************************)
(* Properties of the timestamp policy.                                     *)
(***************************************************************************)
\* the policy of the logger of the last call stamps an event of its level
PolicyStamps ==
    /\ loggers[last.logger].timestamp
    /\ CallLevel >= loggers[last.logger].timestampMinLevel

\* the values the caller of the last call gave under the key timestamp
CallerTimestamps ==
    IF last.op = "Handle"
    THEN {formatAttrValue(WrittenAttrs[i].Value) :
              i \in {j \in DOMAIN WrittenAttrs :
                         QualifiedKey(WrittenAttrs[j]) = "timestamp"}}
    ELSE {last.pairs[i][2] :
              i \in {j \in DOMAIN last.pairs : last.pairs[j][1] = "timestamp"}}

\* C29: an event carries the automatically stamped timestamp key, set at
\* construction before any key of the caller's, if and only if the policy
\* is on and the event's level is at or above the minimum level, for the
\* level constructors and for Handle alike; with the policy off there is no
\* timestamp key unless the caller adds one.
C29_TimestampIffPolicy ==
    Dispatched =>
        /\ "timestamp" \in DOMAIN last.event.metadata
               <=> (PolicyStamps \/ CallerTimestamps # {})
        /\ (PolicyStamps /\ CallerTimestamps = {})
               => last.event.metadata["timestamp"] = NowRFC3339
        /\ CallerTimestamps # {}
               => last.event.metadata["timestamp"] \in CallerTimestamps

\* an Info event of a constructor was stamped with the minimum level at
\* Info, the comparison being an equality, and no key of the caller's
C29_Witness ==
    /\ last.op \in FluentOps /\ CallLevel = LevelInfo
    /\ loggers[last.logger].timestamp
    /\ loggers[last.logger].timestampMinLevel = LevelInfo
    /\ CallerTimestamps = {}
    /\ last.event.metadata["timestamp"] = NowRFC3339

(***************************************************************************)
(* Properties of the no-output sentinel of a formatter.                    *)
(***************************************************************************)
\* the formatter was called for the last event and returned (nil, nil)
SentinelReturned ==
    /\ Dispatched /\ FormatCalls = 1
    /\ loggers[last.logger].formatter = "json"
    /\ "msg" \notin DOMAIN last.event.metadata

\* C30: when the formatter returns the no-output sentinel, as the JSON
\* formatter does for an event with no msg key, nothing is emitted for the
\* event: no byte, not even a line terminator, reaches the output.
C30_SentinelEmitsNothing ==
    SentinelReturned =>
        /\ last.out.stdout = <<>>
        /\ last.out.stderr = <<>>

====
